---- MODULE Spec2Model ----
(***************************************************************************)
(* A model of ConstraintBuilder (src/src/main.py): the Standardizer, the   *)
(* Token Reducer, the Type III Builder, the Interval Simplifier and the    *)
(* Orderer.                                                                *)
(*                                                                         *)
(* Text.  A Python str is modelled character by character, as a sequence   *)
(* of one-character strings, so that find, rfind, slicing, split, lower,   *)
(* float and the lexicographic comparison of two strs are computed and     *)
(* not assumed.  Python indices are 0-based and are kept 0-based in the    *)
(* loop counters; the element at Python index k of a list x is x[k+1].     *)
(***************************************************************************)
EXTENDS Integers, Sequences, FiniteSets, TLC

\* ------------------------------------------------------------------------
\* Python str and list primitives
\* ------------------------------------------------------------------------

\* The characters the model uses, in code-point order (str comparison).
Ascii ==
  << " ", "!", "\"", "%", "(", ")", "*", ",", "-", ".",
     "0", "1", "2", "3", "4", "5", "6", "7", "8", "9",
     "<", "=", ">",
     "A", "B", "C", "D", "E", "I", "K", "L", "N", "O", "R", "S", "T", "W",
     "_",
     "a", "b", "c", "d", "e", "f", "g", "h", "i", "k", "l", "m", "n", "o",
     "p", "q", "r", "s", "t", "u", "v", "w", "x", "y", "z" >>

Ord(c) == CHOOSE k \in 1..Len(Ascii) : Ascii[k] = c

Digits == << "0", "1", "2", "3", "4", "5", "6", "7", "8", "9" >>

IsDigit(c) == \E d \in 1..10 : Digits[d] = c

DigitOf(c) == (CHOOSE d \in 1..10 : Digits[d] = c) - 1

\* str(n) for a natural number n.
RECURSIVE Dec(_)
Dec(n) ==
  IF n < 10 THEN << Digits[n + 1] >>
  ELSE Dec(n \div 10) \o << Digits[(n % 10) + 1] >>

\* float(s) for a str of decimal digits.
RECURSIVE Float(_)
Float(s) ==
  IF Len(s) = 0 THEN 0
  ELSE Float(SubSeq(s, 1, Len(s) - 1)) * 10 + DigitOf(s[Len(s)])

\* a < b and a <= b on strs (lexicographic, by code point).
RECURSIVE StrLt(_, _)
StrLt(a, b) ==
  IF Len(b) = 0 THEN FALSE
  ELSE IF Len(a) = 0 THEN TRUE
  ELSE IF a[1] # b[1] THEN Ord(a[1]) < Ord(b[1])
  ELSE StrLt(Tail(a), Tail(b))

StrLe(a, b) == a = b \/ StrLt(a, b)

\* x[a:b] with 0 <= a and 0 <= b.
Slice(x, a, b) == SubSeq(x, a + 1, IF b > Len(x) THEN Len(x) ELSE b)

\* x[a:b] as Python computes it: a negative bound counts from the end.
PySlice(x, a, b) ==
  LET n  == Len(x)
      lo == IF a < 0 THEN (IF n + a < 0 THEN 0 ELSE n + a) ELSE a
      hi == IF b < 0 THEN (IF n + b < 0 THEN 0 ELSE n + b) ELSE b
  IN  Slice(x, lo, hi)

StartsAt(x, sub, k) ==
  /\ k + Len(sub) <= Len(x)
  /\ SubSeq(x, k + 1, k + Len(sub)) = sub

\* x.find(sub): the lowest 0-based index where sub starts, or -1.
Find(x, sub) ==
  LET hits == { k \in 0..Len(x) : StartsAt(x, sub, k) }
  IN  IF hits = {} THEN -1
      ELSE CHOOSE k \in hits : \A h \in hits : k <= h

\* x.rfind(sub): the highest such index, or -1.
RFind(x, sub) ==
  LET hits == { k \in 0..Len(x) : StartsAt(x, sub, k) }
  IN  IF hits = {} THEN -1
      ELSE CHOOSE k \in hits : \A h \in hits : k >= h

\* sub in x
Contains(x, sub) == Find(x, sub) # -1

\* x.split(sep) for a non-empty separator.
RECURSIVE Split(_, _)
Split(x, sep) ==
  LET k == Find(x, sep)
  IN  IF k = -1 THEN << x >>
      ELSE << Slice(x, 0, k) >> \o Split(Slice(x, k + Len(sep), Len(x)), sep)

\* sep.join(xs)
RECURSIVE Join(_, _)
Join(sep, xs) ==
  IF Len(xs) = 0 THEN << >>
  ELSE IF Len(xs) = 1 THEN xs[1]
  ELSE xs[1] \o sep \o Join(sep, Tail(xs))

LowerChar(c) ==
  CASE c = "A" -> "a" [] c = "B" -> "b" [] c = "C" -> "c" [] c = "D" -> "d"
    [] c = "E" -> "e" [] c = "I" -> "i" [] c = "K" -> "k" [] c = "L" -> "l"
    [] c = "N" -> "n" [] c = "O" -> "o" [] c = "R" -> "r" [] c = "S" -> "s"
    [] c = "T" -> "t" [] c = "W" -> "w" [] OTHER -> c

\* x.lower()
Lower(x) == [ k \in 1..Len(x) |-> LowerChar(x[k]) ]

\* list.pop(k) leaves the list without its element at 0-based index k.
Pop(xs, k) == SubSeq(xs, 1, k) \o SubSeq(xs, k + 2, Len(xs))

\* xs with the element at 0-based index k replaced by v.
Put(xs, k, v) == [ xs EXCEPT ![k + 1] = v ]

\* list.insert(0, v)
InsertFront(xs, v) == << v >> \o xs

\* All sequences over S of length 0..n.
SeqsUpTo(S, n) == UNION { [ 1..k -> S ] : k \in 0..n }

Min(a, b) == IF a <= b THEN a ELSE b
Max(a, b) == IF a >= b THEN a ELSE b

\* ------------------------------------------------------------------------
\* Interval Simplifier: __constraintSimplification
\* ------------------------------------------------------------------------

\* The operator words of a constraint.
OpLt == << "<" >>
OpLe == << "<", "=" >>
OpGt == << ">" >>
OpGe == << ">", "=" >>
OpEq == << "=" >>
OpNe == << "!", "=" >>
OpBetween == << "B", "E", "T", "W", "E", "E", "N" >>
OpNotBetween == << "N", "O", "T", " " >> \o OpBetween

\* A constraint is the Python list [column, operator, value] or
\* [column, operator, value, secondValue]; an OR-group is a list of
\* constraints, an AND-list a list of OR-groups.
CCol(c) == c[1]
COp(c) == c[2]
CVal(c) == c[3]
CVal2(c) == c[4]

\* second[1] = 'BETWEEN'; second.append(hi): the constraint c turned into a
\* BETWEEN that keeps its own value first and appends hi.
IntoBetweenSwapped(c, hi) == << CCol(c), OpBetween, hi >> \o << CVal(c) >>
IntoBetween(c, hi) == << CCol(c), OpBetween, CVal(c) >> \o << hi >>

\* merge = [first, second]: first is the upper bound.
MergeFromUpper(first, second) == << first, second >>

\* merge = [second, first]: first is the lower bound.
MergeFromLowerKeepOrder(first, second) == << first, second >>
MergeFromLower(first, second) == << second, first >>

\* The case analysis of one pair of constraints on the same column.
\* action is "none" (None), "first" (True: the first's values remain) or
\* "second" (False); merge is the list to merge into one OR-group, or << >>
\* for None; first and second are the two lists, as the analysis left them.
DecidePair(first, second) ==
  LET fVal == Float(CVal(first))
      sVal == Float(CVal(second))
      same == [ action |-> "none", merge |-> << >>,
                first |-> first, second |-> second ]
  IN
  IF COp(first) = OpLt \/ COp(first) = OpLe THEN
       IF COp(second) = COp(first) THEN
            [ same EXCEPT !.action = IF fVal <= sVal THEN "first" ELSE "second" ]
       ELSE IF COp(first) = OpLe /\ COp(second) = OpGe /\ fVal >= sVal THEN
            [ same EXCEPT !.second = IntoBetween(second, CVal(first)),
                          !.action = "second" ]
       ELSE IF COp(second) = OpGt \/ (COp(second) = OpGe /\ fVal <= sVal) THEN
            [ same EXCEPT !.merge = MergeFromUpper(first, second) ]
       ELSE same
  ELSE IF COp(first) = OpGt \/ COp(first) = OpGe THEN
       IF COp(second) = COp(first) THEN
            [ same EXCEPT !.action = IF fVal >= sVal THEN "first" ELSE "second" ]
       ELSE IF COp(first) = OpGe /\ COp(second) = OpLe /\ fVal <= sVal THEN
            [ same EXCEPT !.first = IntoBetween(first, CVal(second)),
                          !.action = "first" ]
       ELSE IF COp(second) = OpLt \/ (COp(second) = OpLe /\ fVal >= sVal) THEN
            [ same EXCEPT !.merge = MergeFromLower(first, second) ]
       ELSE same
  ELSE IF COp(first) = OpEq
          \/ (COp(first) = OpNe /\ COp(second) = COp(first) /\ fVal = sVal) THEN
       [ same EXCEPT !.action = "first" ]
  ELSE IF (COp(first) = OpBetween \/ COp(first) = OpNotBetween)
          /\ COp(second) = COp(first) THEN
       IF fVal <= sVal /\ StrLe(CVal2(second), CVal2(first)) THEN
            [ same EXCEPT !.action = "first" ]
       ELSE IF fVal >= sVal /\ StrLe(CVal2(first), CVal2(second)) THEN
            [ same EXCEPT !.action = "second" ]
       ELSE same
  ELSE same

\* The state of one run of the pass: the list being rewritten, the four
\* loop counters (0-based), the local `first`, the sentinel breakUp and the
\* position pc in the loop nest.
SimpStart(constr) ==
  [ constr |-> constr, i |-> 0, j |-> 0, ii |-> 0, jj |-> 0,
    first |-> << >>, breakUp |-> 0, pc |-> "i" ]

\* while i < len(constr): j = i + 1
SimpLoopI(s) ==
  IF s.i < Len(s.constr) THEN [ s EXCEPT !.j = s.i + 1, !.pc = "j" ]
  ELSE [ s EXCEPT !.pc = "done" ]

\* while j < len(constr): ii = 0
SimpLoopJ(s) ==
  IF s.j < Len(s.constr) THEN [ s EXCEPT !.ii = 0, !.pc = "ii" ]
  ELSE [ s EXCEPT !.pc = "jExit" ]

\* while ii < len(constr[i]): first = constr[i][ii]; jj = 0
SimpLoopII(s) ==
  IF s.ii < Len(s.constr[s.i + 1])
  THEN [ s EXCEPT !.first = s.constr[s.i + 1][s.ii + 1], !.jj = 0, !.pc = "jj" ]
  ELSE [ s EXCEPT !.pc = "iiExit" ]

\* The deletion without the removal of a group it empties.
ApplyActionKeepEmpty(s, d) ==
  LET c0 == Put(s.constr, s.i, Put(s.constr[s.i + 1], s.ii, d.first))
      c1 == Put(c0, s.j, Put(c0[s.j + 1], s.jj, d.second))
  IN
  IF Len(c1[s.i + 1]) >= Len(c1[s.j + 1]) THEN
       LET c2 == IF d.action = "first"
                 THEN Put(c1, s.j, Put(c1[s.j + 1], s.jj, d.first))
                 ELSE c1
       IN  [ s EXCEPT !.constr = Put(c2, s.i, Pop(c2[s.i + 1], s.ii)),
                      !.first = d.first, !.ii = s.ii - 1, !.breakUp = 1 ]
  ELSE
       LET c2 == IF d.action = "second"
                 THEN Put(c1, s.i, Put(c1[s.i + 1], s.ii, d.second))
                 ELSE c1
       IN  [ s EXCEPT !.constr = Put(c2, s.j, Pop(c2[s.j + 1], s.jj)),
                      !.first = d.first, !.pc = "continue" ]

\* The deletion of the redundant constraint of a pair (action is not None).
ApplyAction(s, d) ==
  LET c0 == Put(s.constr, s.i, Put(s.constr[s.i + 1], s.ii, d.first))
      c1 == Put(c0, s.j, Put(c0[s.j + 1], s.jj, d.second))
  IN
  IF Len(c1[s.i + 1]) >= Len(c1[s.j + 1]) THEN
       LET c2 == IF d.action = "first"
                 THEN Put(c1, s.j, Put(c1[s.j + 1], s.jj, d.first))
                 ELSE c1
           c3 == Put(c2, s.i, Pop(c2[s.i + 1], s.ii))
       IN  IF Len(c3[s.i + 1]) = 0
           THEN [ s EXCEPT !.constr = Pop(c3, s.i), !.first = d.first,
                           !.ii = s.ii - 1, !.i = s.i - 1, !.breakUp = 3 ]
           ELSE [ s EXCEPT !.constr = c3, !.first = d.first,
                           !.ii = s.ii - 1, !.breakUp = 1 ]
  ELSE
       LET c2 == IF d.action = "second"
                 THEN Put(c1, s.i, Put(c1[s.i + 1], s.ii, d.second))
                 ELSE c1
       IN  [ s EXCEPT !.constr = Put(c2, s.j, Pop(c2[s.j + 1], s.jj)),
                      !.first = d.first, !.pc = "continue" ]

\* A merge that leaves the first group in the list (not the code's).
ApplyMergeKeepFirst(s, d) ==
  IF d.merge # << >> /\ Len(s.constr[s.i + 1]) = 1 /\ Len(s.constr[s.j + 1]) = 1
  THEN [ s EXCEPT !.constr = Put(s.constr, s.j, d.merge),
                  !.i = s.i - 1, !.breakUp = 4 ]
  ELSE s

\* The merge of two single-alternative groups into one OR-group.
ApplyMerge(s, d) ==
  IF d.merge # << >> /\ Len(s.constr[s.i + 1]) = 1 /\ Len(s.constr[s.j + 1]) = 1
  THEN [ s EXCEPT !.constr = Pop(Put(s.constr, s.j, d.merge), s.i),
                  !.i = s.i - 1, !.breakUp = 4 ]
  ELSE s

\* One iteration of `while jj < len(constr[j])`.
SimpLoopJJ(s) ==
  IF ~ (s.jj < Len(s.constr[s.j + 1])) THEN [ s EXCEPT !.pc = "jjExit" ]
  ELSE
    LET second == s.constr[s.j + 1][s.jj + 1]
    IN
    IF CCol(s.first) # CCol(second) THEN [ s EXCEPT !.jj = s.jj + 1 ]
    ELSE
      LET d  == DecidePair(s.first, second)
          s1 == IF d.action # "none" THEN ApplyAction(s, d) ELSE s
      IN
      IF s1.pc = "continue" THEN [ s1 EXCEPT !.pc = "jj" ]
      ELSE
        LET s2 == ApplyMerge(s1, d)
        IN  IF s2.breakUp > 0
            THEN [ s2 EXCEPT !.breakUp = s2.breakUp - 1, !.pc = "jjExit" ]
            ELSE [ s2 EXCEPT !.jj = s2.jj + 1 ]

\* After the jj loop: leave the ii loop too, or ii += 1.
SimpExitJJ(s) ==
  IF s.breakUp > 0 THEN [ s EXCEPT !.breakUp = s.breakUp - 1, !.pc = "iiExit" ]
  ELSE [ s EXCEPT !.ii = s.ii + 1, !.pc = "ii" ]

\* After the ii loop: leave the j loop too, or j += 1.
SimpExitII(s) ==
  IF s.breakUp > 0 THEN [ s EXCEPT !.breakUp = s.breakUp - 1, !.pc = "jExit" ]
  ELSE [ s EXCEPT !.j = s.j + 1, !.pc = "j" ]

\* After the j loop: leave the i loop too, or i += 1.
SimpExitJ(s) ==
  IF s.breakUp > 0 THEN [ s EXCEPT !.pc = "done" ]
  ELSE [ s EXCEPT !.i = s.i + 1, !.pc = "i" ]

SimpStep(s) ==
  CASE s.pc = "i"      -> SimpLoopI(s)
    [] s.pc = "j"      -> SimpLoopJ(s)
    [] s.pc = "ii"     -> SimpLoopII(s)
    [] s.pc = "jj"     -> SimpLoopJJ(s)
    [] s.pc = "jjExit" -> SimpExitJJ(s)
    [] s.pc = "iiExit" -> SimpExitII(s)
    [] s.pc = "jExit"  -> SimpExitJ(s)
    [] OTHER           -> s

\* The loop bookkeeping between two tests of the innermost loop: from s on
\* to the next position at `while jj < len(constr[j])`, or to the end.
RECURSIVE SimpSettle(_)
SimpSettle(s) == IF s.pc \in { "jj", "done" } THEN s ELSE SimpSettle(SimpStep(s))

\* The whole pass: return constr.
RECURSIVE SimpRun(_)
SimpRun(s) == IF s.pc = "done" THEN s.constr ELSE SimpRun(SimpStep(s))

constraintSimplification(constr) == SimpRun(SimpStart(constr))

\* ------------------------------------------------------------------------
\* The schema (table.dat): per column [names, kind] or [names, kind, units]
\* ------------------------------------------------------------------------

NPrice == << "p", "r", "i", "c", "e" >>
NCost == << "c", "o", "s", "t" >>
NWorth == << "w", "o", "r", "t", "h" >>
NMileage == << "m", "i", "l", "e", "a", "g", "e" >>
NYear == << "y", "e", "a", "r" >>
NColor == << "c", "o", "l", "o", "r" >>
UUsd == << "u", "s", "d" >>
UK == << "k" >>
UMiles == << "m", "i", "l", "e", "s" >>
KindNum == << "3" >>
KindText == << "2" >>

NMake == << "m", "a", "k", "e" >>
NModel == << "m", "o", "d", "e", "l" >>

Table ==
  << << << NMake >>, KindText >>,
     << << NModel >>, KindText >>,
     << << NPrice, NCost >>, KindNum, << UUsd, UK >> >>,
     << << NWorth >>, KindNum, << UUsd >> >>,
     << << NMileage >>, KindNum, << UMiles >> >>,
     << << NYear >>, KindNum, << NYear >> >>,
     << << NColor >>, KindText >> >>

\* The columns whose unit synonyms hold `unit`, in table order.
RECURSIVE UnitColsFrom(_, _)
UnitColsFrom(unit, k) ==
  IF k > Len(Table) THEN << >>
  ELSE LET attr == Table[k]
           hit  == Len(attr) = 3 /\ \E u \in 1..Len(attr[3]) : attr[3][u] = unit
       IN  (IF hit THEN << attr[1][1] >> ELSE << >>) \o UnitColsFrom(unit, k + 1)

UnitCols(unit) == UnitColsFrom(unit, 1)

\* table.idxCol: the identifying (Type I) columns.
IdxCol == << 0, 1 >>

\* table.dat[col][0][0]
ColName(col) == Table[col + 1][1][1]

\* ------------------------------------------------------------------------
\* Typed tokens and the Rule Store
\* ------------------------------------------------------------------------

\* A typed token is the Python list [text, kind]; kind is 1 (Type I
\* literal), 2 (Type II attribute word), 3 (Type III value or unit) or
\* 4 (operator word).
TText(t) == t[1]
TKind(t) == t[2]
Tok(text, kind) == << text, kind >>

\* token[0] = text: the same token object with another text.
SetText(token, text) == [ token EXCEPT ![1] = text ]

SymLt == << "<" >>
SymLe == << "<", "=" >>
SymGt == << ">" >>
SymGe == << ">", "=" >>
SymNe == << "!", "=" >>
SymAsc == << "<", "<" >>
SymDesc == << ">", ">" >>
Hyphen == << "-" >>
Star == << "*" >>
Space == << " " >>

WLess == << "l", "e", "s", "s" >>
WThan == << "t", "h", "a", "n" >>
WOr == << "o", "r" >>
WNot == << "n", "o", "t" >>
WAbove == << "a", "b", "o", "v", "e" >>
WFrom == << "f", "r", "o", "m" >>
WBetween == << "b", "e", "t", "w", "e", "e", "n" >>
WAnd == << "a", "n", "d" >>
WTo == << "t", "o" >>
WLeast == << "l", "e", "a", "s", "t" >>
WMost == << "m", "o", "s", "t" >>
WCheapest == << "c", "h", "e", "a", "p", "e", "s", "t" >>
WCosting == << "c", "o", "s", "t", "i", "n", "g" >>
WRed == << "r", "e", "d" >>
App1 == << "(", "1", ")" >>
Code1 == << "1" >>

\* self.bounders: [symbol, [option, ...]] in declaration order.
Bounders ==
  << << SymLt, << WLess \o Space \o WThan >> >>,
     << SymLe, << Star \o Space \o WOr \o Space \o WLess >> >>,
     << SymGt, << WAbove >> >>,
     << SymGe, << WCosting \o Space \o App1 >> >>,
     << SymNe, << WNot >> >> >>

\* self.boundApps: application code -> substitute phrases.
BoundApps == << << Code1, << UUsd >> >> >>

\* self.superlatives and self.superApps.
Superlatives ==
  << << SymAsc, << WCheapest \o Space \o App1, WLeast >> >>,
     << SymDesc, << WMost >> >> >>

SuperApps == << << Code1, << << "_" >> \o NCost, UUsd >> >> >>

\* appCode in apps, and apps[appCode]
AppHas(apps, code) == \E k \in 1..Len(apps) : apps[k][1] = code
AppGet(apps, code) == apps[CHOOSE k \in 1..Len(apps) : apps[k][1] = code][2]

\* comps[i][0] == '(' and comps[i][-1] == ')'
IsAppComp(comp) == comp[1] = "(" /\ comp[Len(comp)] = ")"

\* __isOperation: the first symbol of opSet that x starts with, followed by
\* the end of x or a space; << >> stands for None.
RECURSIVE IsOperationFrom(_, _, _)
IsOperationFrom(opSet, x, k) ==
  IF k > Len(opSet) THEN << >>
  ELSE LET sym == opSet[k][1]
       IN  IF Find(x, sym) = 0
              /\ (Len(x) = Len(sym) \/ x[Len(sym) + 1] = " ")
           THEN sym
           ELSE IsOperationFrom(opSet, x, k + 1)

isOperation(opSet, x) == IsOperationFrom(opSet, x, 1)
isBoundOperation(x) == isOperation(Bounders, x)
isSuperlative(x) == isOperation(Superlatives, x)

\* ------------------------------------------------------------------------
\* Standardizer: __standardizeQuery
\* ------------------------------------------------------------------------

\* if len(unit) > 0: unit += ' '
PadUnit(unit) == IF Len(unit) > 0 THEN unit \o Space ELSE unit

\* The cursor of one left-to-right scan: i is the component index, start
\* and end delimit the match (end = -1: none), text is the unit (boundary
\* scan) or the affected set (superlative scan), err is the exception raised.
ScanStart == [ i |-> 0, start |-> 0, end |-> -1, text |-> << >>, err |-> "" ]

\* The application that may follow a matched literal component (boundary
\* scan): its phrases are appended to the unit and the component skipped.
BoundAfterLiteral(sc, comps) ==
  LET i1 == sc.i + 1
  IN  IF i1 < Len(comps) /\ IsAppComp(comps[i1 + 1])
      THEN LET unit1   == PadUnit(sc.text)
               appCode == Slice(comps[i1 + 1], 1, Len(comps[i1 + 1]) - 1)
               unit2   == IF AppHas(BoundApps, appCode)
                          THEN PadUnit(unit1) \o Join(Space, AppGet(BoundApps, appCode))
                          ELSE unit1
           IN  [ sc EXCEPT !.i = i1 + 1, !.text = unit2 ]
      ELSE [ sc EXCEPT !.i = i1 ]

\* i = 0; start = j + 1 (the unit collected so far is kept)
ScanReset(sc, j) == [ sc EXCEPT !.i = 0, !.start = j + 1 ]

\* if i >= len(comps): end = j
ScanCheckEnd(sc, comps, j) ==
  IF sc.i >= Len(comps) THEN [ sc EXCEPT !.end = j ] ELSE sc

\* The body of `for j in range(len(typed))` of the boundary scan.
BoundToken(sc, token, comps, j) ==
  LET cur == comps[sc.i + 1]
      low == Lower(TText(token))
  IN
  IF TKind(token) = 4 \/ (TKind(token) = 3 /\ cur = Star) THEN
       IF cur = Star THEN
            IF TKind(token) # 3 /\ sc.i + 1 >= Len(comps)
            THEN [ sc EXCEPT !.err = "IndexError" ]
            ELSE IF TKind(token) # 3 /\ low = comps[sc.i + 2]
            THEN ScanCheckEnd([ sc EXCEPT !.i = sc.i + 2 ], comps, j)
            ELSE [ sc EXCEPT !.text = PadUnit(sc.text) \o low ]
       ELSE IF cur = low THEN ScanCheckEnd(BoundAfterLiteral(sc, comps), comps, j)
       ELSE ScanReset(sc, j)
  ELSE ScanReset(sc, j)

RECURSIVE BoundScanFrom(_, _, _, _)
BoundScanFrom(typed, comps, sc, j) ==
  IF j >= Len(typed) \/ sc.end # -1 \/ sc.err # "" THEN sc
  ELSE BoundScanFrom(typed, comps, BoundToken(sc, typed[j + 1], comps, j), j + 1)

\* value = sym, or sym + " (" + text + ")"
Synthetic(sym, text) ==
  IF Len(text) > 0 THEN sym \o << " ", "(" >> \o text \o << ")" >> ELSE sym

\* typed[0:start] + [[value, 4]] + typed[end+1:]
Replace(typed, start, end, value) ==
  Slice(typed, 0, start) \o << Tok(value, 4) >> \o Slice(typed, end + 1, Len(typed))

\* One iteration of `while changes` for one boundary option.
BoundPass(typed, sym, option) ==
  LET comps == Split(option, Space)
      sc    == BoundScanFrom(typed, comps, ScanStart, 0)
  IN  IF sc.err # "" THEN [ typed |-> typed, changes |-> FALSE, err |-> sc.err ]
      ELSE IF sc.end # -1
      THEN [ typed |-> Replace(typed, sc.start, sc.end, Synthetic(sym, sc.text)),
             changes |-> TRUE, err |-> "" ]
      ELSE [ typed |-> typed, changes |-> FALSE, err |-> "" ]

\* The application that may follow a matched literal component
\* (superlative scan): it sets the affected set.
SuperAfterLiteral(sc, comps) ==
  LET i1 == sc.i + 1
  IN  IF i1 < Len(comps) /\ IsAppComp(comps[i1 + 1])
      THEN LET appCode == Slice(comps[i1 + 1], 1, Len(comps[i1 + 1]) - 1)
           IN  [ sc EXCEPT !.i = i1 + 1,
                           !.text = IF AppHas(SuperApps, appCode)
                                    THEN Join(<< ",", " " >>, AppGet(SuperApps, appCode))
                                    ELSE sc.text ]
      ELSE [ sc EXCEPT !.i = i1 ]

\* The body of `for j in range(len(typed))` of the superlative scan.
SuperToken(sc, token, comps, j) ==
  IF TKind(token) = 4 THEN
       IF comps[sc.i + 1] = Lower(TText(token))
       THEN ScanCheckEnd(SuperAfterLiteral(sc, comps), comps, j)
       ELSE ScanReset(sc, j)
  ELSE ScanReset(sc, j)

RECURSIVE SuperScanFrom(_, _, _, _)
SuperScanFrom(typed, comps, sc, j) ==
  IF j >= Len(typed) \/ sc.end # -1 THEN sc
  ELSE SuperScanFrom(typed, comps, SuperToken(sc, typed[j + 1], comps, j), j + 1)

\* The search for the affected attribute or unit after, then before, the
\* matched span, when the option supplied none.
FindAffected(typed, sc) ==
  IF Len(sc.text) # 0 THEN sc
  ELSE IF sc.end + 1 >= Len(typed) THEN [ sc EXCEPT !.err = "IndexError" ]
  ELSE
    LET nxt == typed[sc.end + 2]
        s1  == IF TKind(nxt) = 2
               THEN [ sc EXCEPT !.text = << "_" >> \o TText(nxt), !.end = sc.end + 1 ]
               ELSE IF TKind(nxt) = 3
               THEN [ sc EXCEPT !.text = TText(nxt), !.end = sc.end + 1 ]
               ELSE sc
    IN  IF Len(s1.text) = 0 /\ s1.start > 0 /\ TKind(typed[s1.start]) = 2
        THEN [ s1 EXCEPT !.text = << "_" >> \o TText(typed[s1.start]),
                         !.start = s1.start - 1 ]
        ELSE s1

\* One iteration of `while changes` for one superlative option.
SuperPass(typed, sym, option) ==
  LET comps == Split(option, Space)
      sc    == SuperScanFrom(typed, comps, ScanStart, 0)
  IN  IF sc.end = -1 THEN [ typed |-> typed, changes |-> FALSE, err |-> "" ]
      ELSE LET fa == FindAffected(typed, sc)
           IN  IF fa.err # "" THEN [ typed |-> typed, changes |-> FALSE, err |-> fa.err ]
               ELSE IF Len(fa.text) > 0
               THEN [ typed |-> Replace(typed, fa.start, fa.end, Synthetic(sym, fa.text)),
                      changes |-> TRUE, err |-> "" ]
               ELSE [ typed |-> typed, changes |-> FALSE, err |-> "" ]

\* Whether the word low closes the range that rangeType opened.
IsCloserAnyAnd(rangeType, low) == low = WTo \/ low = WAnd
IsCloser(rangeType, low) == low = WTo \/ (rangeType = WBetween /\ low = WAnd)

\* Range normalization (the loop of lines 397-419), from 0-based index i
\* with the open range word rangeType (<< >>: None) at index delIndex.
RECURSIVE RangeLoop(_, _, _, _)
RangeLoop(typed, i, rangeType, delIndex) ==
  IF i >= Len(typed) THEN typed
  ELSE
    LET token == typed[i + 1]
        low   == Lower(TText(token))
    IN
    IF low = WBetween \/ low = WFrom THEN RangeLoop(typed, i + 1, low, i)
    ELSE IF rangeType # << >> THEN
         IF IsCloser(rangeType, low)
         THEN RangeLoop(Pop(Put(typed, i, SetText(token, Hyphen)), delIndex),
                        i, << >>, -1)
         ELSE IF TKind(token) = 3 THEN RangeLoop(typed, i + 1, rangeType, delIndex)
         ELSE RangeLoop(typed, i + 1, << >>, -1)
    ELSE RangeLoop(typed, i + 1, rangeType, delIndex)

RangePass(typed) == RangeLoop(typed, 0, << >>, -1)

\* The fixed inversion table of a negated operator; << >> stands for None.
InverseStrict(op) ==
  CASE op = SymLt   -> SymGt
    [] op = SymLe   -> SymGe
    [] op = SymGt   -> SymLt
    [] op = SymGe   -> SymLe
    [] op = SymAsc  -> SymDesc
    [] op = SymDesc -> SymAsc
    [] OTHER        -> << >>
Inverse(op) ==
  CASE op = SymLt   -> SymGe
    [] op = SymLe   -> SymGt
    [] op = SymGt   -> SymLe
    [] op = SymGe   -> SymLt
    [] op = SymAsc  -> SymDesc
    [] op = SymDesc -> SymAsc
    [] OTHER        -> << >>

\* excess: the text of nxt from its last '(' on, or "".
Excess(nxt) ==
  LET k == RFind(nxt, << "(" >>)
  IN  IF k # -1 THEN Slice(nxt, k, Len(nxt)) ELSE << >>

\* The token that replaces a `!=` and the operator token nxt after it, or
\* << >> when nxt is no operation with an inverse.
Negated(nxt) ==
  LET isBound == isBoundOperation(nxt)
      isSuper == isSuperlative(nxt)
      isOp    == IF isBound # << >> THEN isBound ELSE isSuper
      result  == IF isOp # << >> THEN Inverse(isOp) ELSE << >>
  IN  IF result = << >> THEN << >>
      ELSE IF Len(Excess(nxt)) > 0 THEN result \o Space \o Excess(nxt)
      ELSE result

\* Negation collapsing (the loop of lines 422-464), from 0-based index i.
RECURSIVE NegLoop(_, _)
NegLoop(typed, i) ==
  IF i >= Len(typed) THEN typed
  ELSE IF TText(typed[i + 1]) = SymNe /\ i + 1 < Len(typed) THEN
       LET nxt == TText(typed[i + 2])
       IN  IF nxt = SymNe THEN NegLoop(Pop(Pop(typed, i), i), i)
           ELSE IF Negated(nxt) # << >>
           THEN NegLoop(Pop(Put(typed, i, SetText(typed[i + 1], Negated(nxt))), i + 1),
                        i + 1)
           ELSE NegLoop(typed, i + 1)
  ELSE NegLoop(typed, i + 1)

NegationPass(typed) == NegLoop(typed, 0)

\* The position of a run of __standardizeQuery: the sequence so far, the
\* phase, the rule index r and option index o of the two rule loops
\* (0-based), and the exception raised, if any.
Options(rules, r) == rules[r + 1][2]

\* The next (rule, option) pair after (r, o), or the next phase.
StdAdvance(s) ==
  LET rules == IF s.phase = "bound" THEN Bounders ELSE Superlatives
  IN  IF s.o + 1 < Len(Options(rules, s.r)) THEN [ s EXCEPT !.o = s.o + 1 ]
      ELSE IF s.r + 1 < Len(rules) THEN [ s EXCEPT !.r = s.r + 1, !.o = 0 ]
      ELSE IF s.phase = "bound"
      THEN [ s EXCEPT !.phase = IF Len(Superlatives) > 0 THEN "super" ELSE "range",
                      !.r = 0, !.o = 0 ]
      ELSE [ s EXCEPT !.phase = "range", !.r = 0, !.o = 0 ]

StdStart(typed) ==
  [ typed |-> typed, r |-> 0, o |-> 0, err |-> "",
    phase |-> IF Len(Bounders) > 0 THEN "bound"
              ELSE IF Len(Superlatives) > 0 THEN "super" ELSE "range" ]

\* One iteration of `while changes` of the boundary loop or of the
\* superlative loop; without a change the loop of the next option starts.
StdRuleStep(s) ==
  LET rules == IF s.phase = "bound" THEN Bounders ELSE Superlatives
      sym   == rules[s.r + 1][1]
      opt   == Options(rules, s.r)[s.o + 1]
      res   == IF s.phase = "bound" THEN BoundPass(s.typed, sym, opt)
               ELSE SuperPass(s.typed, sym, opt)
  IN  IF res.err # "" THEN [ s EXCEPT !.phase = "raised", !.err = res.err ]
      ELSE IF res.changes THEN [ s EXCEPT !.typed = res.typed ]
      ELSE StdAdvance(s)

StdStep(s) ==
  CASE s.phase \in { "bound", "super" } -> StdRuleStep(s)
    [] s.phase = "range" -> [ s EXCEPT !.typed = RangePass(s.typed), !.phase = "neg" ]
    [] s.phase = "neg"   -> [ s EXCEPT !.typed = NegationPass(s.typed), !.phase = "done" ]
    [] OTHER             -> s

\* The whole call: the final position (phase "done" or "raised").
RECURSIVE StdRun(_)
StdRun(s) == IF s.phase \in { "done", "raised" } THEN s ELSE StdRun(StdStep(s))

standardizeQuery(typed) == StdRun(StdStart(typed))

\* ------------------------------------------------------------------------
\* Column Matcher, Token Reducer and the Type I Builder
\* ------------------------------------------------------------------------

\* name + ' LIKE "% ' + value + ' %"'
matchWhere(name, value) ==
  name \o << " ", "L", "I", "K", "E", " ", "\"", "%", " " >> \o value
       \o << " ", "%", "\"" >>

\* len(database.query(table, [col], where)) > 0 for where = matchWhere of
\* the column and text: some stored value of the column holds text between
\* two spaces.  db maps a column index to the stored values of the column.
Query(db, col, text) ==
  \E cell \in db[col] : Contains(Space \o cell \o Space, Space \o text \o Space)

\* __extractOfType
RECURSIVE extractOfType(_, _)
extractOfType(typed, toExtract) ==
  IF Len(typed) = 0 THEN << >>
  ELSE (IF TKind(typed[1]) = toExtract THEN << TText(typed[1]) >> ELSE << >>)
       \o extractOfType(Tail(typed), toExtract)

\* The columns of typeCols, from index k on, in which token is found.
RECURSIVE MatchedCols(_, _, _, _)
MatchedCols(db, token, typeCols, k) ==
  IF k > Len(typeCols) THEN << >>
  ELSE (IF Query(db, typeCols[k], token) THEN << typeCols[k] >> ELSE << >>)
       \o MatchedCols(db, token, typeCols, k + 1)

\* __matchColumns: [token, [columns]] for every token found in a column.
RECURSIVE matchColumns(_, _, _)
matchColumns(db, typeValues, typeCols) ==
  IF Len(typeValues) = 0 THEN << >>
  ELSE LET matched == MatchedCols(db, typeValues[1], typeCols, 1)
       IN  (IF Len(matched) > 0 THEN << << typeValues[1], matched >> >> ELSE << >>)
           \o matchColumns(db, Tail(typeValues), typeCols)

\* A row of the reducer is the list [text, column, [source positions]].
RText(row) == row[1]
RCol(row) == row[2]
RPos(row) == row[3]

\* ls[i]: one row per candidate column of matchList[i].
RowsOf(matchList, i) ==
  [ k \in 1..Len(matchList[i + 1][2]) |->
      << matchList[i + 1][1], matchList[i + 1][2][k], << i >> >> ]

\* ls: the rows of every position from i on.
RECURSIVE Positions(_, _)
Positions(matchList, i) ==
  IF i >= Len(matchList) THEN << >>
  ELSE << RowsOf(matchList, i) >> \o Positions(matchList, i + 1)

\* tryNames: the two concatenations of the texts of matchList[i-1] and
\* matchList[i].
TryNames(matchList, i) ==
  << matchList[i][1] \o Space \o matchList[i + 1][1],
     matchList[i + 1][1] \o Space \o matchList[i][1] >>

\* The row that replaces last and curr.
MergedRow(tryName, col, last, curr) == << tryName, col, RPos(last) \o RPos(curr) >>

\* The merged row put after the rows of its position, not before them.
MergeRowsAtEnd(ls, i, c, a, merged) ==
  Put(Put(ls, i, Append(Pop(ls[i + 1], c), merged)), i - 1, Pop(ls[i], a))

\* ls[i].pop(c); ls[i-1].pop(a); ls[i].insert(0, merged)
MergeRows(ls, i, c, a, merged) ==
  Put(Put(ls, i, InsertFront(Pop(ls[i + 1], c), merged)), i - 1, Pop(ls[i], a))

\* while a < len(ls[i-1]): the search of a row of position i-1 to merge
\* curr = ls[i][c] with; the first name the database confirms wins.
RECURSIVE ReduceA(_, _, _, _, _, _)
ReduceA(db, ls, matchList, i, c, a) ==
  IF a >= Len(ls[i]) THEN ls
  ELSE
    LET curr  == ls[i + 1][c + 1]
        last  == ls[i][a + 1]
        names == TryNames(matchList, i)
    IN
    IF RCol(curr) # RCol(last) THEN ReduceA(db, ls, matchList, i, c, a + 1)
    ELSE IF Query(db, RCol(curr), names[1])
    THEN MergeRows(ls, i, c, a, MergedRow(names[1], RCol(curr), last, curr))
    ELSE IF Query(db, RCol(curr), names[2])
    THEN MergeRows(ls, i, c, a, MergedRow(names[2], RCol(curr), last, curr))
    ELSE ReduceA(db, ls, matchList, i, c, a + 1)

\* while c < len(ls[i])
RECURSIVE ReduceC(_, _, _, _, _)
ReduceC(db, ls, matchList, i, c) ==
  IF c >= Len(ls[i + 1]) THEN ls
  ELSE ReduceC(db, ReduceA(db, ls, matchList, i, c, 0), matchList, i, c + 1)

\* while i < len(matchList)
RECURSIVE ReduceI(_, _, _, _)
ReduceI(db, ls, matchList, i) ==
  IF i >= Len(matchList) THEN ls
  ELSE ReduceI(db, ReduceC(db, ls, matchList, i, 0), matchList, i + 1)

\* ret: the non-empty positions of ls, in order.
RECURSIVE Flatten(_)
Flatten(ls) ==
  IF Len(ls) = 0 THEN << >>
  ELSE (IF Len(ls[1]) > 0 THEN << ls[1] >> ELSE << >>) \o Flatten(Tail(ls))

\* __reduce
reduce(db, matchList) == Flatten(ReduceI(db, Positions(matchList, 0), matchList, 1))

\* The OR of the matchWhere predicates of one group.
RECURSIVE OrWhere(_)
OrWhere(matched) ==
  IF Len(matched) = 0 THEN << >>
  ELSE LET rest == OrWhere(SubSeq(matched, 1, Len(matched) - 1))
           row  == matched[Len(matched)]
       IN  (IF Len(rest) > 0 THEN rest \o << " ", "O", "R", " " >> ELSE rest)
           \o matchWhere(ColName(RCol(row)), RText(row))

\* __convertToSQL
convertToSQL(matchList) == [ k \in 1..Len(matchList) |-> OrWhere(matchList[k]) ]

\* ------------------------------------------------------------------------
\* Type III Builder: type3Where
\* ------------------------------------------------------------------------

\* None, where a str may stand as well.
NoneVal == << "None" >>

\* isNumeric of src.typify, by its use on value tokens: a str of digits.
isNumeric(x) == Len(x) > 0 /\ \A k \in 1..Len(x) : IsDigit(x[k])

backAppend(last, curr) == curr \o Space \o last
spaceAppend(last, curr) == last \o Space \o curr

\* rest[start:end], the text between the parentheses of a bound token, or
\* the unit as it was when rest holds no pair of parentheses.
PayloadUnit(rest, unit) ==
  IF Find(rest, << "(" >>) # -1 /\ Find(rest, << ")" >>) # -1
  THEN Slice(rest, Find(rest, << "(" >>) + 1, Find(rest, << ")" >>))
  ELSE unit

\* while unit is None or otherVal is None: the tokens after the range
\* indicator at index j, up to the second value and the unit, or to the first
\* token that is no value and no unit.  j is the index the loop ends on;
\* used holds the indices of the tokens whose text was taken.
RECURSIVE RangeWhile(_, _, _, _, _)
RangeWhile(typed, unit, otherVal, j, used) ==
  IF unit # NoneVal /\ otherVal # NoneVal
  THEN [ unit |-> unit, otherVal |-> otherVal, j |-> j, used |-> used ]
  ELSE IF j + 1 >= Len(typed)
  THEN [ unit |-> unit, otherVal |-> otherVal, j |-> j + 1, used |-> used ]
  ELSE LET t == typed[j + 2]
       IN  IF TKind(t) = 3
           THEN IF isNumeric(TText(t))
                THEN RangeWhile(typed, unit, TText(t), j + 1, used \cup { j + 1 })
                ELSE IF unit = NoneVal
                THEN RangeWhile(typed, TText(t), otherVal, j + 1, used \cup { j + 1 })
                ELSE RangeWhile(typed, unit, otherVal, j + 1, used)
           ELSE [ unit |-> unit, otherVal |-> otherVal, j |-> j + 1, used |-> used ]

\* if j > i: black = j
Blacklist(s, j) == IF j > s.i THEN [ s EXCEPT !.black = j ] ELSE s

\* for j in dirr[0]: one direction of the scan around the value at s.i, from
\* index j backwards down to stop + 1 or forwards to the end of typed.
RECURSIVE Walk(_, _, _, _, _, _)
Walk(typed, s, j, stop, fwd, foundUnit) ==
  IF (fwd /\ j >= Len(typed)) \/ (~ fwd /\ j <= stop) THEN s
  ELSE
    LET text == TText(typed[j + 1])
        kind == TKind(typed[j + 1])
        nxt  == IF fwd THEN j + 1 ELSE j - 1
    IN
    IF kind = 3 /\ ~ isNumeric(text) /\ ~ foundUnit
    THEN LET joint == IF s.unit = NoneVal THEN text
                      ELSE IF fwd THEN spaceAppend(s.unit, text)
                      ELSE backAppend(s.unit, text)
         IN  Walk(typed,
                  Blacklist([ s EXCEPT !.unit = joint, !.used = @ \cup { j } ], j),
                  nxt, stop, fwd, foundUnit)
    ELSE IF kind = 4 /\ isBoundOperation(text) # << >>
    THEN IF s.bound # NoneVal THEN s
         ELSE LET bb   == isBoundOperation(text)
                  rest == Slice(text, Len(bb), Len(text))
                  s2   == [ s EXCEPT !.bound = bb, !.unit = PayloadUnit(rest, s.unit),
                                     !.used = @ \cup { j } ]
              IN  IF s2.unit # NoneVal THEN s2
                  ELSE Walk(typed, Blacklist(s2, j), nxt, stop, fwd, foundUnit)
    ELSE IF (s.bound = NoneVal \/ s.bound = SymNe) /\ text = Hyphen /\ j > s.i
    THEN LET r == RangeWhile(typed, s.unit, s.otherVal, j, s.used \cup { j })
         IN  [ s EXCEPT !.unit = r.unit, !.otherVal = r.otherVal, !.i = r.j,
                        !.used = r.used ]
    ELSE s

\* black = max(black, i)
AfterDirection(s) == [ s EXCEPT !.black = Max(s.black, s.i) ]

\* for dirr in directions: backwards from i - 1 down to the blacklist, then
\* forwards from i + 1; both ranges are built before the first direction.
\* The field used is not the code's: it records the indices of the tokens
\* the scan took its unit, its bound and its second value from.
ScanValue(typed, i, black) ==
  LET s0   == [ unit |-> NoneVal, bound |-> NoneVal, otherVal |-> NoneVal,
                black |-> black, i |-> i, used |-> {} ]
      back == AfterDirection(Walk(typed, s0, i - 1, black, FALSE, FALSE))
  IN  AfterDirection(Walk(typed, back, i + 1, black, TRUE, back.unit # NoneVal))

\* if float(otherVal) < float(value): value = otherVal; otherVal = value
\* The pair << value, otherVal >> after the two assignments.
RangeEnds(value, otherVal) ==
  IF Float(otherVal) < Float(value)
  THEN LET value2 == otherVal IN << value2, value2 >>
  ELSE << value, otherVal >>

\* The operator is '=' whatever bound was found.
BoundIgnored(bound) == OpEq

\* bb, when no range was found: the bound, '=' by default.
BoundOrEquals(bound) == IF bound # NoneVal THEN bound ELSE OpEq

\* where: one constraint per column the unit belongs to ("year" when no unit
\* was found).
Where(value, s) ==
  LET unit == IF s.unit = NoneVal THEN NYear ELSE s.unit
      cols == UnitCols(unit)
  IN  IF s.otherVal = NoneVal
      THEN [ k \in 1..Len(cols) |-> << cols[k], BoundOrEquals(s.bound), value >> ]
      ELSE LET ends == RangeEnds(value, s.otherVal)
               bb   == IF s.bound = SymNe THEN OpNotBetween ELSE OpBetween
           IN  [ k \in 1..Len(cols) |-> << cols[k], bb, ends[1], ends[2] >> ]

\* for i in range(len(typed)): the constraints of every value token that is
\* not blacklisted.
RECURSIVE Type3Loop(_, _, _, _)
Type3Loop(typed, i, black, ret) ==
  IF i >= Len(typed) THEN ret
  ELSE IF i <= black THEN Type3Loop(typed, i + 1, black, ret)
  ELSE IF TKind(typed[i + 1]) = 3 /\ isNumeric(TText(typed[i + 1]))
  THEN LET s     == ScanValue(typed, i, black)
           where == Where(TText(typed[i + 1]), s)
       IN  Type3Loop(typed, i + 1, s.black,
                     IF Len(where) > 0 THEN Append(ret, where) ELSE ret)
  ELSE Type3Loop(typed, i + 1, black, ret)

\* The scans of the same loop that gave constraints, each with the index of
\* its value token.
RECURSIVE ScanLoop(_, _, _, _)
ScanLoop(typed, i, black, scans) ==
  IF i >= Len(typed) THEN scans
  ELSE IF i <= black THEN ScanLoop(typed, i + 1, black, scans)
  ELSE IF TKind(typed[i + 1]) = 3 /\ isNumeric(TText(typed[i + 1]))
  THEN LET s     == ScanValue(typed, i, black)
           where == Where(TText(typed[i + 1]), s)
       IN  ScanLoop(typed, i + 1, s.black,
                    IF Len(where) > 0
                    THEN Append(scans, [ at |-> i, used |-> s.used, where |-> where ])
                    ELSE scans)
  ELSE ScanLoop(typed, i + 1, black, scans)

\* The text of one constraint.
ConstraintText(constraint) ==
  IF Len(constraint) > 3
  THEN constraint[1] \o Space \o constraint[2] \o Space \o constraint[3]
       \o << " ", "A", "N", "D", " " >> \o constraint[4]
  ELSE constraint[1] \o Space \o constraint[2] \o Space \o constraint[3]

\* The constraints of one group joined by ' OR '.
RECURSIVE OrText(_)
OrText(orList) ==
  IF Len(orList) = 0 THEN << >>
  ELSE LET rest == OrText(SubSeq(orList, 1, Len(orList) - 1))
       IN  (IF Len(rest) > 0 THEN rest \o << " ", "O", "R", " " >> ELSE rest)
           \o ConstraintText(orList[Len(orList)])

\* clauses: the text of every group that has one.
RECURSIVE Clauses(_)
Clauses(ret) ==
  IF Len(ret) = 0 THEN << >>
  ELSE (IF Len(OrText(ret[1])) > 0 THEN << OrText(ret[1]) >> ELSE << >>)
       \o Clauses(Tail(ret))

\* The AND-list before it is simplified.
BuiltConstraints(typed) == Type3Loop(typed, 0, -1, << >>)

type3Where(typed) == Clauses(constraintSimplification(BuiltConstraints(typed)))

\* ------------------------------------------------------------------------
\* Orderer: orderBy
\* ------------------------------------------------------------------------

\* rest[start:end].split(', ') for the text after the superlative symbol.
Affected(text, superlative) ==
  LET rest  == Slice(text, Len(superlative), Len(text))
      start == Find(rest, << "(" >>) + 1
      end   == Find(rest, << ")" >>)
  IN  Split(PySlice(rest, start, end), << ",", " " >>)

\* The first column, in table order from k on, with attrVal among its names.
RECURSIVE AttrByName(_, _)
AttrByName(attrVal, k) ==
  IF k > Len(Table) THEN NoneVal
  ELSE IF \E n \in 1..Len(Table[k][1]) : Table[k][1][n] = attrVal
  THEN Table[k][1][1]
  ELSE AttrByName(attrVal, k + 1)

\* The first column, in table order from k on, with unitVal among its units.
RECURSIVE AttrByUnit(_, _)
AttrByUnit(unitVal, k) ==
  IF k > Len(Table) THEN NoneVal
  ELSE IF Len(Table[k]) > 2 /\ \E u \in 1..Len(Table[k][3]) : Table[k][3][u] = unitVal
  THEN Table[k][1][1]
  ELSE AttrByUnit(unitVal, k + 1)

\* for affect in affected: the column of the first affect that has one.
\* affect[0] of an empty affect is an IndexError.
RECURSIVE AttrFound(_, _)
AttrFound(affected, k) ==
  IF k > Len(affected) THEN [ err |-> "none", attr |-> NoneVal ]
  ELSE IF Len(affected[k]) = 0 THEN [ err |-> "IndexError", attr |-> NoneVal ]
  ELSE LET affect == affected[k]
           found  == IF affect[1] = "_"
                     THEN AttrByName(Lower(Tail(affect)), 1)
                     ELSE AttrByUnit(Lower(affect), 1)
       IN  IF found # NoneVal THEN [ err |-> "none", attr |-> found ]
           ELSE AttrFound(affected, k + 1)

KeyAsc(attr) == attr \o << " ", "A", "S", "C" >>
KeyDesc(attr) == attr \o << " ", "D", "E", "S", "C" >>

\* Every superlative sorts descending.
SuperKeyDesc(superlative, attr) == KeyDesc(attr)

\* attrFound + " ASC" or attrFound + " DESC", for an attrFound that is a str.
SuperKey(superlative, attr) ==
  IF superlative = SymAsc THEN KeyAsc(attr) ELSE KeyDesc(attr)

\* for token in typed: the keys of the superlative tokens.
RECURSIVE OrderPass1(_, _, _)
OrderPass1(typed, k, o) ==
  IF k > Len(typed) THEN o
  ELSE
    LET superlative == isSuperlative(TText(typed[k]))
    IN
    IF superlative = << >> THEN OrderPass1(typed, k + 1, o)
    ELSE
      LET f == AttrFound(Affected(TText(typed[k]), superlative), 1)
      IN
      IF f.err # "none" THEN [ o EXCEPT !.err = f.err ]
      ELSE IF superlative \in { SymAsc, SymDesc }
      THEN IF f.attr = NoneVal THEN [ o EXCEPT !.err = "TypeError" ]
           ELSE OrderPass1(typed, k + 1,
                  [ o EXCEPT !.ret = Append(@, SuperKey(superlative, f.attr)),
                             !.used = Append(@, f.attr) ])
      ELSE OrderPass1(typed, k + 1, o)

\* for j in range(i+1, len(type3)): ok, for the clause comps at index i.
RECURSIVE Compatible(_, _, _)
Compatible(type3, comps, j) ==
  IF j >= Len(type3) THEN TRUE
  ELSE
    LET other == type3[j + 1]
    IN
    IF Contains(other, comps[1]) /\ ~ (Len(other) > 0 /\ other[1] = "(")
    THEN IF comps[2] = OpLt \/ (comps[2] = OpLe /\ Contains(other, OpLt))
         THEN Compatible(type3, comps, j + 1)
         ELSE IF comps[2] = OpGt \/ (comps[2] = OpGe /\ Contains(other, OpGt))
         THEN Compatible(type3, comps, j + 1)
         ELSE FALSE
    ELSE Compatible(type3, comps, j + 1)

\* str((float(a) + float(b)) / 2) for two strs of digits.
Mean(a, b) ==
  LET sum == Float(a) + Float(b)
  IN  Dec(sum \div 2) \o << "." >> \o (IF sum % 2 = 1 THEN << "5" >> ELSE << "0" >>)

\* The implicit key of a clause, as a list of no or one key.
ImplicitKey(comps) ==
  IF Contains(comps[2], OpGt) THEN << KeyDesc(comps[1]) >>
  ELSE IF Contains(comps[2], OpLt) THEN << KeyAsc(comps[1]) >>
  ELSE IF Contains(comps[2], OpEq) \/ Contains(comps[2], OpBetween)
  THEN LET mean == IF Contains(comps[2], OpBetween) THEN Mean(comps[3], comps[5])
                   ELSE comps[3]
       IN  << << "A", "B", "S", "(" >> \o mean \o << " ", "-", " " >> \o comps[1]
              \o << ")" >> >>
  ELSE << >>

\* for i in range(len(type3)): the implicit keys of the clauses without OR
\* whose column has no key yet.
RECURSIVE OrderPass2(_, _, _)
OrderPass2(type3, i, o) ==
  IF i >= Len(type3) THEN o
  ELSE
    LET constr == type3[i + 1]
        comps  == Split(constr, Space)
    IN
    IF Contains(constr, << "O", "R" >>) THEN OrderPass2(type3, i + 1, o)
    ELSE IF \E u \in 1..Len(o.used) : o.used[u] = comps[1]
    THEN OrderPass2(type3, i + 1, o)
    ELSE OrderPass2(type3, i + 1,
           [ o EXCEPT !.used = Append(@, comps[1]),
                      !.ret = IF Compatible(type3, comps, i + 1)
                              THEN @ \o ImplicitKey(comps) ELSE @ ])

\* orderBy: the keys, or the error the call ends in.
orderBy(typed, type3) ==
  LET o == OrderPass1(typed, 1, [ err |-> "none", ret |-> << >>, used |-> << >> ])
  IN  IF o.err # "none" THEN o ELSE OrderPass2(type3, 0, o)

\* ------------------------------------------------------------------------
\* Bounds
\* ------------------------------------------------------------------------

\* Numeric values are the decimal strs of ValLo..ValHi.
ValLo == 9
ValHi == 10
\* The longest AND-list handed to the simplifier.
MaxGroups == 2

NumVals == { Dec(n) : n \in ValLo..ValHi }

Units == { UUsd, UK, UMiles }

RelOps == { OpLt, OpLe, OpGt, OpGe, OpEq, OpNe }

\* where.append([unitMatch, bb, value]) for every column of cols.
PlainGroup(cols, op, v) == [ k \in 1..Len(cols) |-> << cols[k], op, v >> ]

\* where.append([unitMatch, bb, value, otherVal]) for every column of cols.
RangeGroup(cols, op, v, w) == [ k \in 1..Len(cols) |-> << cols[k], op, v, w >> ]

\* The OR-groups type3Where builds for one numeric token: one constraint per
\* column of the unit, all with the same operator and value(s).
BuiltGroups ==
  { PlainGroup(UnitCols(u), op, v) : u \in Units, op \in RelOps, v \in NumVals }
  \cup
  { RangeGroup(UnitCols(u), op, pr[1], pr[2]) :
      u \in Units, op \in { OpBetween, OpNotBetween },
      pr \in { q \in NumVals \X NumVals : Float(q[1]) <= Float(q[2]) } }

\* The longest typed token sequence.
MaxTokens == 4

\* The longest typed token sequence a query is built from.
MaxQuery == 3

\* The most lines a rule file holds.
MaxLines == 3

\* The longest AND-list of single-alternative groups a whole pass is followed on.
MaxPass == 4

\* The longest sequence of values and plain boundary symbols a query is built from.
MaxBounded == 4

\* ------------------------------------------------------------------------
\* Rule loader: __loadSynonymFile
\*
\* A file is the sequence of its lines as the iteration over the open file
\* yields them: every line but possibly the last ends in a newline.  The
\* application table is a list of [code, phrases] pairs, as BoundApps is.
\* ------------------------------------------------------------------------

Newline == << "\n" >>
Dash == << "-" >>
SemiSpace == << ";", " " >>

\* appDict is None until the dash barrier is read.
NoDict == [ none |-> TRUE, items |-> << >> ]
EmptyDict == [ none |-> FALSE, items |-> << >> ]

\* appDict.update({defed: split})
DictUpdate(dict, defed, split) ==
  LET items == dict.items
      at    == { k \in 1..Len(items) : items[k][1] = defed }
  IN  [ dict EXCEPT !.items =
          IF at = {} THEN Append(items, << defed, split >>)
          ELSE LET k == CHOOSE k \in at : TRUE
               IN  [ items EXCEPT ![k] = << defed, split >> ] ]

LoadStart ==
  [ phase |-> "lines", n |-> 0, synList |-> << >>, appDict |-> NoDict,
    currBound |-> << >>, currSym |-> NoneVal ]

\* One iteration of the loop over the rule lines (appDict is None).
LoadRuleLine(st, rawLine) ==
  LET line == PySlice(rawLine, 0, -1)
  IN  IF Len(line) = 0
      THEN [ st EXCEPT
               !.synList = IF Len(st.currBound) > 0
                           THEN Append(@, << st.currSym, st.currBound >>)
                           ELSE @,
               !.currBound = << >>,
               !.currSym = NoneVal ]
      ELSE IF line[1] = "-" THEN [ st EXCEPT !.appDict = EmptyDict ]
      ELSE IF st.currSym = NoneVal THEN [ st EXCEPT !.currSym = line ]
      ELSE [ st EXCEPT !.currBound = Append(@, line) ]

\* One iteration of the loop over the application lines.
LoadApplicationLine(st, line) ==
  LET firstEnd == Find(line, Space)
      defed    == PySlice(line, 0, firstEnd)
      split    == Split(PySlice(line, firstEnd + 1, -1), SemiSpace)
  IN  [ st EXCEPT !.appDict = DictUpdate(@, defed, split) ]

\* After the loop: the last block is stored and the pair is returned.
LoadReturn(st) ==
  [ st EXCEPT
      !.synList = IF Len(st.currBound) > 0
                  THEN Append(@, << st.currSym, st.currBound >>)
                  ELSE @,
      !.phase = "returned" ]

LoadStep(st, file) ==
  IF st.n >= Len(file) THEN LoadReturn(st)
  ELSE LET next == [ st EXCEPT !.n = @ + 1 ]
       IN  IF st.appDict.none THEN LoadRuleLine(next, file[st.n + 1])
           ELSE LoadApplicationLine(next, file[st.n + 1])

RECURSIVE LoadRun(_, _)
LoadRun(st, file) ==
  IF st.phase = "returned" THEN st ELSE LoadRun(LoadStep(st, file), file)

loadSynonymFile(file) ==
  LET st == LoadRun(LoadStart, file)
  IN  << st.synList, st.appDict >>

VARIABLES
  simpIn,   \* the AND-list the simplifier was called with
  simp,     \* the state of the simplifier's run
  stdIn,    \* the typed sequence __standardizeQuery was called with
  std,      \* the position of its run
  db,       \* the stored values of the identifying columns
  redIn,    \* the typed sequence type1Where was called with
  red,      \* the position of its run
  qIn,      \* the standardized sequence the query is built from
  q,        \* type3Where's and orderBy's results
  loadIn,   \* the lines of the file __loadSynonymFile reads
  load      \* the position of its run

simpVars == << simpIn, simp >>
stdVars == << stdIn, std >>
redVars == << db, redIn, red >>
qVars == << qIn, q >>
loadVars == << loadIn, load >>
vars == << simpIn, simp, stdIn, std, db, redIn, red, qIn, q, loadIn, load >>

RedStart ==
  [ phase |-> "match", matchList |-> << >>, reduced |-> << >>, where |-> << >> ]
QStart ==
  [ phase |-> "type3", type3 |-> << >>, err |-> "none", order |-> << >> ]

SimpIdle == simpIn = << >> /\ simp = [ SimpStart(<< >>) EXCEPT !.pc = "idle" ]
StdIdle == stdIn = << >> /\ std = [ StdStart(<< >>) EXCEPT !.phase = "idle" ]
RedIdle ==
  /\ db = [ col \in {} |-> {} ] /\ redIn = << >>
  /\ red = [ RedStart EXCEPT !.phase = "idle" ]
QIdle == qIn = << >> /\ q = [ QStart EXCEPT !.phase = "idle" ]
LoadIdle == loadIn = << >> /\ load = [ LoadStart EXCEPT !.phase = "idle" ]

\* --- the simplifier, one loop step per action ---

InitSimp ==
  /\ simpIn \in SeqsUpTo(BuiltGroups, MaxGroups)
  /\ simp = SimpSettle(SimpStart(simpIn))
  /\ StdIdle /\ RedIdle /\ QIdle /\ LoadIdle

\* One test of the innermost loop that finds a pair to compare: the case
\* analysis of the pair, its action or merge, and the loop bookkeeping up to
\* the next test.
ComparePair ==
  /\ simp.pc = "jj" /\ simp.jj < Len(simp.constr[simp.j + 1])
  /\ simp' = SimpSettle(SimpLoopJJ(simp))
  /\ UNCHANGED << simpIn, stdVars, redVars, qVars, loadVars >>

\* One test of the innermost loop that ends it: on to the next pair of
\* constraints or of groups.
NextPair ==
  /\ simp.pc = "jj" /\ ~ (simp.jj < Len(simp.constr[simp.j + 1]))
  /\ simp' = SimpSettle(SimpLoopJJ(simp))
  /\ UNCHANGED << simpIn, stdVars, redVars, qVars, loadVars >>

NextSimp == ComparePair \/ NextPair

SpecSimp == InitSimp /\ [][NextSimp]_vars

\* The same pass over longer AND-lists of single-alternative groups: strict
\* bounds on price (unit k) and on mileage (unit miles).
PassGroups ==
  { PlainGroup(UnitCols(u), op, v) :
      u \in { UK, UMiles }, op \in { OpLt, OpGt }, v \in NumVals }

InitPass ==
  /\ simpIn \in SeqsUpTo(PassGroups, MaxPass)
  /\ simp = SimpSettle(SimpStart(simpIn))
  /\ StdIdle /\ RedIdle /\ QIdle /\ LoadIdle

SpecPass == InitPass /\ [][NextSimp]_vars

\* Every pass of either kind of AND-list, with the loop always taking its
\* next step: the code runs the loop without suspension.
InitShrink == InitSimp \/ InitPass

\* A step of the loop is possible exactly at a test of the innermost loop:
\* the guards of ComparePair and NextPair are complementary there.
SimpEnabled == simp.pc = "jj"

\* WF_vars(NextSimp), with ENABLED << NextSimp >>_vars written as SimpEnabled.
SimpFair == []<>(~ SimpEnabled) \/ []<><< NextSimp >>_vars

SpecShrink == InitShrink /\ [][NextSimp]_vars /\ SimpFair

\* --- the Standardizer: one `while changes` iteration, or one of the two
\* closing loops, per action ---

\* Operator words, unit and attribute words, a number and a literal.
WordTokens ==
  { Tok(WLess, 4), Tok(WThan, 4), Tok(WNot, 4), Tok(WOr, 4), Tok(WLeast, 4),
    Tok(UMiles, 3), Tok(Dec(ValHi), 3), Tok(NPrice, 2) }

\* Tokens as a first run leaves them: symbols, with and without a payload.
SymbolTokens ==
  { Tok(SymNe, 4), Tok(SymLt, 4), Tok(Synthetic(SymLe, UMiles), 4),
    Tok(SymGt, 4), Tok(SymGe, 4), Tok(Synthetic(SymAsc, UUsd), 4),
    Tok(SymDesc, 4), Tok(WRed, 1) }

\* The words of a range, two values and a literal.
RangeTokens ==
  { Tok(WBetween, 4), Tok(WFrom, 4), Tok(WAnd, 4), Tok(WTo, 4),
    Tok(Dec(ValLo), 3), Tok(Dec(ValHi), 3), Tok(WRed, 1) }

InitStd(alphabet) ==
  /\ stdIn \in SeqsUpTo(alphabet, MaxTokens)
  /\ std = StdStart(stdIn)
  /\ SimpIdle /\ RedIdle /\ QIdle /\ LoadIdle

BoundIteration ==
  std.phase = "bound" /\ std' = StdRuleStep(std)
  /\ UNCHANGED << stdIn, simpVars, redVars, qVars, loadVars >>
SuperIteration ==
  std.phase = "super" /\ std' = StdRuleStep(std)
  /\ UNCHANGED << stdIn, simpVars, redVars, qVars, loadVars >>
RangeNormalization ==
  std.phase = "range" /\ std' = StdStep(std)
  /\ UNCHANGED << stdIn, simpVars, redVars, qVars, loadVars >>
NegationCollapsing ==
  std.phase = "neg" /\ std' = StdStep(std)
  /\ UNCHANGED << stdIn, simpVars, redVars, qVars, loadVars >>

NextStd == BoundIteration \/ SuperIteration \/ RangeNormalization \/ NegationCollapsing

InitStdWords == InitStd(WordTokens)
InitStdSymbols == InitStd(SymbolTokens)
InitStdRange == InitStd(RangeTokens)

SpecStd == InitStdWords /\ [][NextStd]_vars
SpecNeg == InitStdSymbols /\ [][NextStd]_vars
SpecRange == InitStdRange /\ [][NextStd]_vars

\* --- type1Where: the Column Matcher, the Token Reducer and the rendering,
\* one step per action ---

WHonda == << "h", "o", "n", "d", "a" >>
WAccord == << "a", "c", "c", "o", "r", "d" >>
WLx == << "l", "x" >>

\* Literal tokens of the identifying kind, one of them stored nowhere, and a
\* token of another kind.
LiteralTokens ==
  { Tok(WHonda, 1), Tok(WAccord, 1), Tok(WLx, 1), Tok(WRed, 1), Tok(WRed, 2) }

\* The values a column may store.
Cells == { WHonda \o Space \o WAccord \o Space \o WLx, WAccord }

InitRed ==
  /\ db \in [ { IdxCol[k] : k \in 1..Len(IdxCol) } -> SUBSET Cells ]
  /\ redIn \in SeqsUpTo(LiteralTokens, MaxTokens)
  /\ red = RedStart
  /\ SimpIdle /\ StdIdle /\ QIdle /\ LoadIdle

MatchColumns ==
  /\ red.phase = "match"
  /\ red' = [ red EXCEPT !.phase = "reduce",
                         !.matchList = matchColumns(db, extractOfType(redIn, 1), IdxCol) ]
  /\ UNCHANGED << db, redIn, simpVars, stdVars, qVars, loadVars >>

Reduce ==
  /\ red.phase = "reduce"
  /\ red' = [ red EXCEPT !.phase = "sql", !.reduced = reduce(db, red.matchList) ]
  /\ UNCHANGED << db, redIn, simpVars, stdVars, qVars, loadVars >>

ConvertToSQL ==
  /\ red.phase = "sql"
  /\ red' = [ red EXCEPT !.phase = "done", !.where = convertToSQL(red.reduced) ]
  /\ UNCHANGED << db, redIn, simpVars, stdVars, qVars, loadVars >>

NextRed == MatchColumns \/ Reduce \/ ConvertToSQL

SpecRed == InitRed /\ [][NextRed]_vars

\* --- fromQuery after the Standardizer: type3Where, then orderBy ---

\* Tokens as the Standardizer leaves them: values, unit words, boundary
\* symbols with and without a payload, the range indicator, superlatives with
\* their affected lists (one of them naming no column) and a literal.
QueryTokens ==
  { Tok(Dec(ValLo), 3), Tok(Dec(ValHi), 3), Tok(UUsd, 3), Tok(UMiles, 3),
    Tok(SymLt, 4), Tok(SymNe, 4), Tok(Synthetic(SymGe, UUsd), 4), Tok(Hyphen, 4),
    Tok(Synthetic(SymAsc, << "_" >> \o NCost \o << ",", " " >> \o UUsd), 4),
    Tok(Synthetic(SymDesc, UMiles), 4),
    Tok(Synthetic(SymAsc, << "_" >> \o WRed), 4),
    Tok(WRed, 1) }

InitQuery ==
  /\ qIn \in SeqsUpTo(QueryTokens, MaxQuery)
  /\ q = QStart
  /\ SimpIdle /\ StdIdle /\ RedIdle /\ LoadIdle

Type3Where ==
  /\ q.phase = "type3"
  /\ q' = [ q EXCEPT !.phase = "order", !.type3 = type3Where(qIn) ]
  /\ UNCHANGED << qIn, simpVars, stdVars, redVars, loadVars >>

OrderBy ==
  /\ q.phase = "order"
  /\ LET o == orderBy(qIn, q.type3)
     IN  q' = [ q EXCEPT !.phase = IF o.err = "none" THEN "done" ELSE "raised",
                         !.err = o.err,
                         !.order = IF o.err = "none" THEN o.ret ELSE << >> ]
  /\ UNCHANGED << qIn, simpVars, stdVars, redVars, loadVars >>

NextQuery == Type3Where \/ OrderBy

SpecQuery == InitQuery /\ [][NextQuery]_vars

\* The same two steps on sequences of values and boundary symbols without
\* payload: every constraint is on the column of the default unit.
BoundedTokens ==
  { Tok(Dec(ValLo), 3), Tok(Dec(ValHi), 3),
    Tok(SymLt, 4), Tok(SymLe, 4), Tok(SymGt, 4), Tok(SymGe, 4) }

InitBounded ==
  /\ qIn \in SeqsUpTo(BoundedTokens, MaxBounded)
  /\ q = QStart
  /\ SimpIdle /\ StdIdle /\ RedIdle /\ LoadIdle

SpecBounded == InitBounded /\ [][NextQuery]_vars

\* --- the rule loader, one line of the file per action ---

\* Lines of a rule file: a symbol, a pattern option, a blank line, the dash
\* barrier, an application line, an application line that holds only its
\* code, and an application line the file ends in without a newline.
FileLines ==
  { SymLt \o Newline,
    WLess \o Space \o WThan \o Newline,
    Newline,
    Dash \o Newline,
    Code1 \o Space \o UUsd \o SemiSpace \o UK \o Newline,
    Code1 \o Newline,
    Code1 \o Space \o UUsd }

EndsLine(line) == Len(line) > 0 /\ line[Len(line)] = "\n"

Files ==
  { f \in SeqsUpTo(FileLines, MaxLines) :
      \A k \in 1..Len(f) : k < Len(f) => EndsLine(f[k]) }

InitLoad ==
  /\ loadIn \in Files
  /\ load = LoadStart
  /\ SimpIdle /\ StdIdle /\ RedIdle /\ QIdle

ReadRuleLine ==
  /\ load.phase = "lines" /\ load.n < Len(loadIn) /\ load.appDict.none
  /\ load' = LoadStep(load, loadIn)
  /\ UNCHANGED << loadIn, simpVars, stdVars, redVars, qVars >>

ReadApplicationLine ==
  /\ load.phase = "lines" /\ load.n < Len(loadIn) /\ ~ load.appDict.none
  /\ load' = LoadStep(load, loadIn)
  /\ UNCHANGED << loadIn, simpVars, stdVars, redVars, qVars >>

ReturnStore ==
  /\ load.phase = "lines" /\ load.n >= Len(loadIn)
  /\ load' = LoadStep(load, loadIn)
  /\ UNCHANGED << loadIn, simpVars, stdVars, redVars, qVars >>

NextLoad == ReadRuleLine \/ ReadApplicationLine \/ ReturnStore

SpecLoad == InitLoad /\ [][NextLoad]_vars

\* ------------------------------------------------------------------------
\* Properties of the Interval Simplifier (checked under SpecSimp)
\* ------------------------------------------------------------------------

SimpDone == simp.pc = "done"

IsUpper(op) == op \in { OpLt, OpLe }
IsLower(op) == op \in { OpGt, OpGe }

\* The simplifier was called with two single-alternative groups on the
\* same column.
TwoSingles ==
  /\ Len(simpIn) = 2
  /\ Len(simpIn[1]) = 1 /\ Len(simpIn[2]) = 1
  /\ CCol(simpIn[1][1]) = CCol(simpIn[2][1])

\* The two input constraints of TwoSingles, x the one with operator in ops.
InPair(x, y) ==
  \/ x = simpIn[1][1] /\ y = simpIn[2][1]
  \/ x = simpIn[2][1] /\ y = simpIn[1][1]

\* C1: two single-alternative groups `col <= U` and `col >= L` with L <= U,
\* in either list order, leave exactly one group holding the one constraint
\* `col BETWEEN L AND U`; neither bound remains.
C1_BetweenMerge ==
  (SimpDone /\ TwoSingles) =>
    \A x \in { simpIn[1][1], simpIn[2][1] }, y \in { simpIn[1][1], simpIn[2][1] } :
      ( /\ InPair(x, y)
        /\ COp(x) = OpLe /\ COp(y) = OpGe
        /\ Float(CVal(y)) <= Float(CVal(x)) )
      => simp.constr = << << << CCol(x), OpBetween, CVal(y), CVal(x) >> >> >>

C1_Witness ==
  /\ SimpDone /\ TwoSingles
  /\ COp(simpIn[1][1]) = OpLe /\ COp(simpIn[2][1]) = OpGe
  /\ Float(CVal(simpIn[2][1])) < Float(CVal(simpIn[1][1]))
  /\ Len(simp.constr) = 1

\* x is a tighter bound than y: same direction, and a smaller upper value
\* or a larger lower value.
TighterThan(x, y) ==
  \/ IsUpper(COp(x)) /\ IsUpper(COp(y)) /\ Float(CVal(x)) < Float(CVal(y))
  \/ IsLower(COp(x)) /\ IsLower(COp(y)) /\ Float(CVal(x)) > Float(CVal(y))

\* C2: two single-alternative groups on one column that are both upper
\* bounds (each < or <=) or both lower bounds (each > or >=) leave only the
\* numerically tighter bound; the other bound's group is dropped.
C2_SameDirectionTighter ==
  (SimpDone /\ TwoSingles) =>
    \A x \in { simpIn[1][1], simpIn[2][1] }, y \in { simpIn[1][1], simpIn[2][1] } :
      (InPair(x, y) /\ TighterThan(x, y)) => simp.constr = << << x >> >>

\* C3: an upper bound `col < a` (or <=) and a lower bound `col > b` (or >=)
\* with a < b, each alone in its group, in either list order, are replaced
\* by one OR-group holding both constraints unchanged, the upper bound first.
C3_ContradictionMerge ==
  (SimpDone /\ TwoSingles) =>
    \A x \in { simpIn[1][1], simpIn[2][1] }, y \in { simpIn[1][1], simpIn[2][1] } :
      ( /\ InPair(x, y)
        /\ IsUpper(COp(x)) /\ IsLower(COp(y))
        /\ Float(CVal(x)) < Float(CVal(y)) )
      => simp.constr = << << x, y >> >>

C3_Witness ==
  /\ SimpDone /\ TwoSingles
  /\ IsLower(COp(simpIn[1][1])) /\ IsUpper(COp(simpIn[2][1]))
  /\ Float(CVal(simpIn[2][1])) < Float(CVal(simpIn[1][1]))
  /\ Len(simp.constr) = 1 /\ Len(simp.constr[1]) = 2

\* ------------------------------------------------------------------------
\* Properties of the Standardizer
\* ------------------------------------------------------------------------

\* k copies of the token t.
Times(t, k) == [ n \in 1..k |-> t ]

NoToken(seq, text) == \A n \in 1..Len(seq) : TText(seq[n]) # text

\* Operator tokens and the tokens the inversion table turns them into.
InvertedTokens ==
  { << Tok(SymLt, 4), Tok(SymGe, 4) >>,
    << Tok(Synthetic(SymLe, UMiles), 4), Tok(Synthetic(SymGt, UMiles), 4) >>,
    << Tok(SymGt, 4), Tok(SymLe, 4) >>,
    << Tok(SymGe, 4), Tok(SymLt, 4) >>,
    << Tok(Synthetic(SymAsc, UUsd), 4), Tok(Synthetic(SymDesc, UUsd), 4) >>,
    << Tok(SymDesc, 4), Tok(SymAsc, 4) >> }

InvertedOf(tok) == (CHOOSE pair \in InvertedTokens : pair[1] = tok)[2]

\* before is p tokens without `!=`, then k times `!=`, then a recognized
\* operator token, then tokens without `!=`.
IsNegatedRun(before, p, k) ==
  /\ p + k + 1 <= Len(before)
  /\ \A n \in 1..Len(before) :
       (n \in (p + 1)..(p + k)) <=> (TText(before[n]) = SymNe)
  /\ \A n \in (p + 1)..(p + k) : before[n] = Tok(SymNe, 4)
  /\ \E pair \in InvertedTokens : pair[1] = before[p + k + 1]

\* What the negation pass makes of `before`, when `before` is a run of k
\* `!=` before a recognized operator token, with no other `!=` around it.
CollapsesRuns(before, after) ==
  \A p \in 0..Len(before), k \in 1..Len(before) :
    IsNegatedRun(before, p, k)
    => LET opTok == before[p + k + 1]
       IN  after = SubSeq(before, 1, p)
                   \o << IF k % 2 = 0 THEN opTok ELSE InvertedOf(opTok) >>
                   \o SubSeq(before, p + k + 2, Len(before))

\* Every `!=` of seq is the last token or stands before a token that is
\* neither `!=` nor a recognized operator.
NoNegatable(seq) ==
  \A n \in 1..Len(seq) :
    TText(seq[n]) = SymNe =>
      \/ n = Len(seq)
      \/ /\ TText(seq[n + 1]) # SymNe
         /\ isBoundOperation(TText(seq[n + 1])) = << >>
         /\ isSuperlative(TText(seq[n + 1])) = << >>

\* C4: the negation pass replaces a run of k `!=` tokens and the recognized
\* operator token after it by one token, the operator itself when k is
\* even and its inverse when k is odd, the payload kept; a `!=` followed by
\* no recognized operator stays in place.
C4_NegationCollapse ==
  [][ std.phase = "neg" =>
        /\ CollapsesRuns(std.typed, std'.typed)
        /\ (NoNegatable(std.typed) => std'.typed = std.typed) ]_vars

C4_Witness ==
  /\ std.phase = "done"
  /\ stdIn = Times(Tok(SymNe, 4), 3) \o << Tok(Synthetic(SymLe, UMiles), 4) >>
  /\ std.typed = << Tok(Synthetic(SymGt, UMiles), 4) >>

IsValue(t) == TKind(t) = 3
Openers == { Tok(WBetween, 4), Tok(WFrom, 4) }
Closers == { Tok(WAnd, 4), Tok(WTo, 4) }
RangeWords == { WBetween, WFrom, WAnd, WTo }

\* What the range pass makes of opener a closer b, and of a range with a
\* token of another kind between the opener and the closer.
NormalizesRanges(before, after) ==
  /\ \A op \in Openers, cl \in Closers, a \in RangeTokens, b \in RangeTokens :
       (IsValue(a) /\ IsValue(b) /\ before = << op, a, cl, b >>)
       => after = IF TText(op) = WFrom /\ TText(cl) = WAnd THEN before
                  ELSE << a, Tok(Hyphen, 4), b >>
  /\ \A op \in Openers, cl \in Closers, x \in RangeTokens, b \in RangeTokens :
       ( /\ ~ IsValue(x) /\ TText(x) \notin RangeWords /\ IsValue(b)
         /\ before \in { << op, x, cl, b >>, << op, b, x, cl >> } )
       => after = before

\* C5: `between a and b`, `between a to b` and `from a to b` all become
\* `a - b`; `from a and b` stays as it is, and so does a range with a token
\* of another kind between the opener and the closer.
C5_RangeNormalization ==
  [][ std.phase = "range" => NormalizesRanges(std.typed, std'.typed) ]_vars

C5_Witness ==
  /\ std.phase = "done"
  /\ stdIn = << Tok(WFrom, 4), Tok(Dec(ValHi), 3), Tok(WTo, 4), Tok(Dec(ValLo), 3) >>
  /\ std.typed = << Tok(Dec(ValHi), 3), Tok(Hyphen, 4), Tok(Dec(ValLo), 3) >>

\* C6: the Standardizer run on its own output returns that output unchanged.
C6_Idempotent ==
  std.phase = "done" =>
    LET again == standardizeQuery(std.typed)
    IN  again.phase = "done" /\ again.typed = std.typed

\* ------------------------------------------------------------------------
\* Properties of the Token Reducer (checked under SpecRed)
\* ------------------------------------------------------------------------

\* __reduce has returned.
RedReduced == red.phase \in { "sql", "done" }

\* Token 0 has the candidate columns {0}, token 1 the candidate columns
\* {0, 1}, and column 0 stores the two texts one after the other.
HondaAccord ==
  /\ Len(red.matchList) = 2
  /\ red.matchList[1][2] = << 0 >>
  /\ red.matchList[2][2] = << 0, 1 >>
  /\ Query(db, 0, red.matchList[1][1] \o Space \o red.matchList[2][1])

\* The row the two tokens merge into: column 0, source positions 0 and 1.
HondaAccordRow ==
  << red.matchList[1][1] \o Space \o red.matchList[2][1], 0, << 0, 1 >> >>

\* C7 as stated: for token 0 with candidate column 0 and token 1 with
\* candidate columns 0 and 1 whose concatenation column 0 stores, the reducer
\* emits the merged row alone; the column-1 alternative of token 1 is not in
\* the output.
C7_AlternativeDropped ==
  (RedReduced /\ HondaAccord) => red.reduced = << << HondaAccordRow >> >>

\* C7, amended: for these two tokens the reducer emits exactly one OR-group;
\* it holds the merged row (column 0, source positions 0 and 1) first and,
\* after it, the column-1 alternative of token 1, which is kept unmerged.
C7_AlternativeKept ==
  (RedReduced /\ HondaAccord) =>
    red.reduced = << << HondaAccordRow, << red.matchList[2][1], 1, << 1 >> >> >> >>

C7_Witness ==
  /\ red.phase = "done" /\ HondaAccord
  /\ Len(red.reduced) = 1 /\ Len(red.reduced[1]) = 2

\* ------------------------------------------------------------------------
\* Properties of the Type III Builder and the Orderer (checked under
\* SpecQuery)
\* ------------------------------------------------------------------------

\* type3Where has returned.
Type3Built == q.phase \in { "order", "done", "raised" }

IsValueTok(t) == TKind(t) = 3 /\ isNumeric(TText(t))
IsUnitTok(t) == TKind(t) = 3 /\ ~ isNumeric(TText(t))
IsBoundTok(t) == TKind(t) = 4 /\ isBoundOperation(TText(t)) # << >>
HasPayload(t) ==
  Contains(TText(t), << "(" >>) /\ Contains(TText(t), << ")" >>)

\* The text between the parentheses of a token.
PayloadOf(t) ==
  Slice(TText(t), Find(TText(t), << "(" >>) + 1, Find(TText(t), << ")" >>))

\* The clause list that holds `C op value` for every column C of the unit,
\* OR-ed in one group; no clause when the unit belongs to no column.
Predicates(unit, op, value) ==
  LET cols == UnitCols(unit)
  IN  IF Len(cols) = 0 THEN << >>
      ELSE << Join(<< " ", "O", "R", " " >>,
                   [ k \in 1..Len(cols) |->
                       cols[k] \o Space \o op \o Space \o value ]) >>

\* The places << boundary, unit, value >> of a value with its unit word next
\* to it and the boundary token next to the two.
BoundShapes == { << 1, 2, 3 >>, << 1, 3, 2 >>, << 3, 1, 2 >>, << 3, 2, 1 >> }

\* The places << unit, value >> of a value and its unit word alone.
UnitShapes == { << 1, 2 >>, << 2, 1 >> }

InBoundShape(p) ==
  Len(qIn) = 3 /\ IsBoundTok(qIn[p[1]]) /\ IsUnitTok(qIn[p[2]]) /\ IsValueTok(qIn[p[3]])

InUnitShape(p) == Len(qIn) = 2 /\ IsUnitTok(qIn[p[1]]) /\ IsValueTok(qIn[p[2]])

\* With no boundary token the operator is '='.
DefaultsToEquals ==
  \A p \in UnitShapes :
    InUnitShape(p) => q.type3 = Predicates(TText(qIn[p[1]]), OpEq, TText(qIn[p[2]]))

\* C8 as stated: a value with a unit word directly before or after it and a
\* recognized boundary token next to them yields `C <op> value` for every
\* column C of the unit word, OR-ed in one group; with no boundary token the
\* operator is '='.
C8_UnitWordDecides ==
  Type3Built =>
    /\ DefaultsToEquals
    /\ \A p \in BoundShapes :
         InBoundShape(p) =>
           q.type3 = Predicates(TText(qIn[p[2]]), isBoundOperation(TText(qIn[p[1]])),
                                TText(qIn[p[3]]))

\* The unit of a value with a unit word and a boundary token: the payload of
\* the boundary token when it has one, the unit word otherwise.
DecidingUnit(bound, unit) == IF HasPayload(bound) THEN PayloadOf(bound) ELSE TText(unit)

\* C8, amended: the predicates are those of the columns of the unit word when
\* the boundary token has no parenthesized payload, and those of the columns
\* of the payload when it has one; the operator is the boundary's, '=' with
\* no boundary token, and the columns' predicates are OR-ed in one group.
C8_UnitBoundPredicate ==
  Type3Built =>
    /\ DefaultsToEquals
    /\ \A p \in BoundShapes :
         InBoundShape(p) =>
           q.type3 = Predicates(DecidingUnit(qIn[p[1]], qIn[p[2]]),
                                isBoundOperation(TText(qIn[p[1]])), TText(qIn[p[3]]))

\* A unit word shared by two columns, with a boundary token.
C8_Witness ==
  /\ Type3Built
  /\ \E p \in BoundShapes :
       InBoundShape(p) /\ ~ HasPayload(qIn[p[1]]) /\ Len(UnitCols(TText(qIn[p[2]]))) = 2
  /\ Len(q.type3) = 1 /\ Contains(q.type3[1], << " ", "O", "R", " " >>)

\* C9: a range a - b, with a and b in either order, yields BETWEEN with
\* min(a, b) first and max(a, b) second (on the column of the default unit
\* when no unit is given).
C9_RangeEndpoints ==
  (Type3Built /\ Len(qIn) = 3 /\ IsValueTok(qIn[1]) /\ TText(qIn[2]) = Hyphen
     /\ IsValueTok(qIn[3])) =>
    LET a  == TText(qIn[1])
        b  == TText(qIn[3])
        lo == IF Float(a) <= Float(b) THEN a ELSE b
        hi == IF Float(a) <= Float(b) THEN b ELSE a
    IN  q.type3 = << NYear \o Space \o OpBetween \o Space \o lo
                     \o << " ", "A", "N", "D", " " >> \o hi >>

\* The column a token resolves to as a superlative, or None.
TargetOf(t) ==
  IF isSuperlative(TText(t)) = << >> THEN NoneVal
  ELSE AttrFound(Affected(TText(t), isSuperlative(TText(t))), 1).attr

IsSuperTok(t) == isSuperlative(TText(t)) # << >>

\* Every superlative token of the sequence has a column.
SuperlativesResolve ==
  \A k \in 1..Len(qIn) : IsSuperTok(qIn[k]) => TargetOf(qIn[k]) # NoneVal

InCols(col, cols) == \E k \in 1..Len(cols) : cols[k] = col

\* The sequence has a value token, and something that gives a value the
\* column col: a unit word or a boundary payload of col, or col being the
\* column of the default unit.
NumericFor(col) ==
  /\ \E k \in 1..Len(qIn) : IsValueTok(qIn[k])
  /\ \/ InCols(col, UnitCols(NYear))
     \/ \E k \in 1..Len(qIn) :
          \/ IsUnitTok(qIn[k]) /\ InCols(col, UnitCols(TText(qIn[k])))
          \/ IsBoundTok(qIn[k]) /\ HasPayload(qIn[k])
               /\ InCols(col, UnitCols(PayloadOf(qIn[k])))

\* The columns the constraints of a clause are on.
ClauseCols(clause) ==
  LET parts == Split(clause, << " ", "O", "R", " " >>)
  IN  { Split(parts[k], Space)[1] : k \in 1..Len(parts) }

C11_NeverRaises == q.phase # "raised"

\* The scan of the superlative option the Standardizer is at.
SuperScanNow ==
  SuperScanFrom(std.typed,
                Split(Options(Superlatives, std.r)[std.o + 1], Space), ScanStart, 0)

\* The option matches a span, no application gives it an affected list, the
\* token after the span (if there is one) is no attribute word and no unit,
\* and the token before it (if there is one) is no attribute word.
NoTargetMatch ==
  /\ std.phase = "super"
  /\ LET sc == SuperScanNow
     IN  /\ sc.end # -1
         /\ Len(sc.text) = 0
         /\ (sc.end + 1 < Len(std.typed) => TKind(std.typed[sc.end + 2]) \notin { 2, 3 })
         /\ (sc.start > 0 => TKind(std.typed[sc.start]) # 2)

\* C12: a superlative match with no target, also one whose span ends at the
\* last token, emits no synthetic token, leaves the sequence as it is and
\* lets the Standardizer go on.
C12_SuperlativeAbort ==
  [][ NoTargetMatch => (std'.phase # "raised" /\ std'.typed = std.typed) ]_vars

\* ------------------------------------------------------------------------
\* OR-groups of the three emitters (checked under SpecGroups, which runs the
\* Token Reducer, the Interval Simplifier or the Type III Builder)
\* ------------------------------------------------------------------------

InitGroups == InitSimp \/ InitRed \/ InitQuery
NextGroups == NextSimp \/ NextRed \/ NextQuery
SpecGroups == InitGroups /\ [][NextGroups]_vars

NoEmptyGroup(groups) == \A g \in 1..Len(groups) : Len(groups[g]) > 0

\* C13: no OR-group of the Token Reducer's output, of the Interval
\* Simplifier's list between any two of its steps and at its end, or of the
\* Type III Builder's simplified list and rendered clauses is empty.
C13_GroupsNonEmpty ==
  /\ NoEmptyGroup(red.reduced)
  /\ NoEmptyGroup(simp.constr)
  /\ NoEmptyGroup(constraintSimplification(BuiltConstraints(qIn)))
  /\ NoEmptyGroup(q.type3)

\* A deletion has emptied one of two groups of the simplifier's input, and
\* the group is gone from the list.
C13_Witness ==
  /\ SimpDone /\ Len(simpIn) = 2 /\ Len(simp.constr) = 1
  /\ simp.constr[1] \in { simpIn[1], simpIn[2] }

\* ------------------------------------------------------------------------
\* Further properties of the Interval Simplifier (checked under SpecSimp)
\* ------------------------------------------------------------------------

\* y duplicates x: the same operator and a numerically equal value.
Duplicates(x, y) == COp(y) = COp(x) /\ Float(CVal(y)) = Float(CVal(x))

\* C14: an `=` or `!=` constraint paired, on its column, with a constraint
\* of another operator or of another value is no duplicate: both constraints
\* stay in the output as they were.
C14_EqualsKept ==
  (SimpDone /\ TwoSingles) =>
    \A x, y \in { simpIn[1][1], simpIn[2][1] } :
      (InPair(x, y) /\ COp(x) \in { OpEq, OpNe } /\ ~ Duplicates(x, y))
        => simp.constr = simpIn

IsRange(op) == op \in { OpBetween, OpNotBetween }

\* The interval of x contains the interval of y, endpoints taken as numbers.
Encloses(x, y) ==
  Float(CVal(x)) <= Float(CVal(y)) /\ Float(CVal2(x)) >= Float(CVal2(y))

\* C15: of two BETWEEN (or two NOT BETWEEN) constraints on one column, in
\* different groups, the one whose interval is numerically contained in the
\* other's is discarded and the containing one is kept; when neither
\* contains the other both are kept.
C15_ContainedDiscarded ==
  (SimpDone /\ TwoSingles /\ IsRange(COp(simpIn[1][1]))
     /\ COp(simpIn[2][1]) = COp(simpIn[1][1])) =>
    LET a == simpIn[1][1]
        b == simpIn[2][1]
    IN  /\ Encloses(a, b) => simp.constr = << << a >> >>
        /\ Encloses(b, a) => simp.constr = << << b >> >>
        /\ (~ Encloses(a, b) /\ ~ Encloses(b, a)) => simp.constr = simpIn

\* Line k of the file is read as an application line: the dash barrier
\* stands on an earlier line.
IsApplicationLine(file, k) ==
  LoadRun(LoadStart, SubSeq(file, 1, k - 1)).appDict.none = FALSE

\* An application line that holds only a code and no phrase list.
CodeOnly(line) == Find(line, Space) = -1

\* C16: a rule file with a malformed application line, one that holds only
\* a code and no phrase list, is never loaded into a returned rule store.
C16_MalformedRejected ==
  load.phase = "returned" =>
    \A k \in 1..Len(loadIn) :
      IsApplicationLine(loadIn, k) => ~ CodeOnly(loadIn[k])

\* Some number satisfies both the upper bound x and the lower bound y.
JointlySatisfiable(x, y) ==
  \/ Float(CVal(y)) < Float(CVal(x))
  \/ Float(CVal(y)) = Float(CVal(x)) /\ COp(x) = OpLe /\ COp(y) = OpGe

\* The group holds both constraints: they are the alternatives of one OR.
Disjoined(group, x, y) ==
  \E a, b \in 1..Len(group) : a # b /\ group[a] = x /\ group[b] = y

\* C17: an upper bound and a lower bound on one column that some value
\* satisfies together are never replaced by their disjunction.
C17_DisjunctionOnlyContradictory ==
  (SimpDone /\ TwoSingles) =>
    \A x, y \in { simpIn[1][1], simpIn[2][1] } :
      ( /\ InPair(x, y)
        /\ IsUpper(COp(x)) /\ IsLower(COp(y))
        /\ JointlySatisfiable(x, y) )
      => \A g \in 1..Len(simp.constr) : ~ Disjoined(simp.constr[g], x, y)

\* The groups of an AND-list as a set, each group the set of its constraints.
GroupSet(constr) ==
  { { constr[g][k] : k \in 1..Len(constr[g]) } : g \in 1..Len(constr) }

\* C18: for two AND-groups A and B, simplifying [A, B] and simplifying
\* [B, A] give the same set of groups with the same constraints.
C18_OrderSymmetric ==
  (SimpDone /\ Len(simpIn) = 2) =>
    GroupSet(simp.constr) =
      GroupSet(constraintSimplification(<< simpIn[2], simpIn[1] >>))

\* The constraint stands somewhere in the AND-list.
Holds(constr, x) ==
  \E g \in 1..Len(constr) : \E k \in 1..Len(constr[g]) : constr[g][k] = x

\* The AND-list the simplifier was called with: two groups on one column,
\* which the pass changes, then two same-operator bounds on another column.
ChangedPairThenRedundantPair ==
  /\ Len(simpIn) = 4
  /\ CCol(simpIn[1][1]) = CCol(simpIn[2][1])
  /\ CCol(simpIn[3][1]) = CCol(simpIn[4][1])
  /\ CCol(simpIn[3][1]) # CCol(simpIn[1][1])
  /\ COp(simpIn[3][1]) = COp(simpIn[4][1])
  /\ CVal(simpIn[3][1]) # CVal(simpIn[4][1])

\* The looser of the two bounds of the later pair.
LooserOfLater ==
  IF TighterThan(simpIn[3][1], simpIn[4][1]) THEN simpIn[4][1] ELSE simpIn[3][1]

\* C19: after a structural change on an earlier pair of groups, the merge
\* into a disjunction included, a later pair of redundant same-operator
\* bounds on another column is still reduced to its tighter bound.
C19_PassContinues ==
  (SimpDone /\ ChangedPairThenRedundantPair) =>
    /\ Len(simp.constr) < 3
    /\ ~ Holds(simp.constr, LooserOfLater)

\* The columns constraints are built on, and the values a column is tried
\* with: twice the value, so that the points between two bound values and
\* beyond the outermost ones are tried as well.
SatCols == { NPrice, NWorth, NMileage }
SamplePoints == (2 * ValLo - 1)..(2 * ValHi + 1)

\* The constraint c holds of a column value of v / 2.
SatConstraint(c, v) ==
  LET a == 2 * Float(CVal(c))
  IN  CASE COp(c) = OpLt -> v < a
        [] COp(c) = OpLe -> v <= a
        [] COp(c) = OpGt -> v > a
        [] COp(c) = OpGe -> v >= a
        [] COp(c) = OpEq -> v = a
        [] COp(c) = OpNe -> v # a
        [] COp(c) = OpBetween -> a <= v /\ v <= 2 * Float(CVal2(c))
        [] COp(c) = OpNotBetween -> ~ (a <= v /\ v <= 2 * Float(CVal2(c)))

\* The assignments of column values that satisfy the AND of the OR-groups.
SatSet(constr) ==
  { row \in [ SatCols -> SamplePoints ] :
      \A g \in 1..Len(constr) :
        \E k \in 1..Len(constr[g]) :
          SatConstraint(constr[g][k], row[CCol(constr[g][k])]) }

\* Same-direction bounds with one operator, or the same constraint twice.
Redundant(x, y) ==
  \/ x = y
  \/ COp(x) = COp(y) /\ COp(x) \in { OpLt, OpLe, OpGt, OpGe }

\* The simplifier was called with two groups that share a column, and every
\* pair of their constraints on a shared column is redundant: the pass can
\* only delete.
OnlyDeletions ==
  /\ Len(simpIn) = 2
  /\ \E a \in 1..Len(simpIn[1]), b \in 1..Len(simpIn[2]) :
       CCol(simpIn[1][a]) = CCol(simpIn[2][b])
  /\ \A a \in 1..Len(simpIn[1]), b \in 1..Len(simpIn[2]) :
       CCol(simpIn[1][a]) = CCol(simpIn[2][b])
         => Redundant(simpIn[1][a], simpIn[2][b])

\* C20: when the pass deletes constraints as redundant, the output groups
\* are satisfied by exactly the column values that satisfy the input
\* groups, also when a deleted constraint is one alternative of an OR-group
\* with alternatives on different columns.
C20_DeletionPreservesMeaning ==
  (SimpDone /\ OnlyDeletions) => SatSet(simp.constr) = SatSet(simpIn)

\* ------------------------------------------------------------------------
\* Termination and size of the Interval Simplifier's pass
\* ------------------------------------------------------------------------

RECURSIVE ConstraintsFrom(_, _)
ConstraintsFrom(constr, g) ==
  IF g > Len(constr) THEN 0 ELSE Len(constr[g]) + ConstraintsFrom(constr, g + 1)

\* The number of constraints of an AND-list.
NumConstraints(constr) == ConstraintsFrom(constr, 1)

\* C21: the pass terminates, every structural change lowers the total
\* number of groups and constraints, and the list never holds more groups
\* or more constraints than the input.
C21_TerminatesShrinking ==
  /\ <> SimpDone
  /\ [] (SimpEnabled => SimpSettle(SimpLoopJJ(simp)) # simp)
  /\ [][ simp'.constr # simp.constr =>
           /\ Len(simp'.constr) + NumConstraints(simp'.constr)
                < Len(simp.constr) + NumConstraints(simp.constr)
           /\ Len(simp'.constr) <= Len(simp.constr)
           /\ NumConstraints(simp'.constr) <= NumConstraints(simp.constr) ]_vars
  /\ [] ( /\ Len(simp.constr) <= Len(simpIn)
          /\ NumConstraints(simp.constr) <= NumConstraints(simpIn) )

\* A pass over four groups has ended after a merge and a deletion.
C21_Witness ==
  /\ SimpDone /\ Len(simpIn) = 4
  /\ Len(simp.constr) = 2
  /\ NumConstraints(simp.constr) = 3

\* ------------------------------------------------------------------------
\* Properties of the Type III Builder's scans
\* ------------------------------------------------------------------------

Scans == ScanLoop(qIn, 0, -1, << >>)

\* C22: no token consumed by the scan of one numeric token (a unit word, a
\* boundary operator token, a range partner) contributes to the constraints
\* of another numeric token.
C22_ConsumedOnce ==
  \A a, b \in 1..Len(Scans) :
    a # b => Scans[a].used \cap Scans[b].used = {}

\* The scans and the built AND-list are those of the same loop.
ScansAreBuilt ==
  BuiltConstraints(qIn) = [ k \in 1..Len(Scans) |-> Scans[k].where ]

\* ------------------------------------------------------------------------
\* Properties of the Orderer's second pass
\* ------------------------------------------------------------------------

\* The components of clause k of the rendered Type III clauses.
Comps(k) == Split(q.type3[k], Space)

IsDisjunctive(k) == Contains(q.type3[k], << "O", "R" >>)

\* Clause i is the first clause on its column, and a later clause on that
\* column bounds it from the other side.
ConflictAfter(i, j) ==
  /\ i < j /\ ~ IsDisjunctive(i)
  /\ \A k \in 1..(i - 1) : Comps(k)[1] # Comps(i)[1]
  /\ Comps(j)[1] = Comps(i)[1]
  /\ \/ IsUpper(Comps(i)[2]) /\ IsLower(Comps(j)[2])
     \/ IsLower(Comps(i)[2]) /\ IsUpper(Comps(j)[2])

\* The order keys hold a key on the column.
KeyOn(col) ==
  \E k \in 1..Len(q.order) :
    \/ q.order[k] \in { KeyAsc(col), KeyDesc(col) }
    \/ Contains(q.order[k], << " ", "-", " " >> \o col \o << ")" >>)

\* C23: a `<` or `<=` clause followed by a `>`-family clause on the same
\* column, or a `>` or `>=` clause followed by a `<`-family clause, yields
\* no implicit key for that column.
C23_ConflictNoKey ==
  q.phase = "done" =>
    \A i, j \in 1..Len(q.type3) :
      ConflictAfter(i, j) => ~ KeyOn(Comps(i)[1])

\* ------------------------------------------------------------------------
\* The Standardizer and its caller's list
\*
\* The caller's list holds token objects.  The boundary and superlative
\* loops build a new list from slices of the old one, with the same token
\* objects in it; the range and negation loops change the list they are
\* given and its tokens in place.  A token object is followed through the
\* call by its index in the caller's list, kept as a third component.
\* ------------------------------------------------------------------------

\* The caller's list with every token marked as the object it is.
Tagged(typed) == [ k \in 1..Len(typed) |-> typed[k] \o << k - 1 >> ]

Untagged(typed) == [ k \in 1..Len(typed) |-> Tok(TText(typed[k]), TKind(typed[k])) ]

\* The list as the rule loops leave it, before the range loop.
RECURSIVE RulesRun(_)
RulesRun(s) ==
  IF s.phase \in { "range", "neg", "done", "raised" } THEN s ELSE RulesRun(StdStep(s))

\* No replacement was made: the range and negation loops work on the
\* caller's own list object, which is also the object returned.
OwnList(typed) == RulesRun(StdStart(Tagged(typed))).typed = Tagged(typed)

\* The caller's list after the call.  A token object that left the working
\* list was never changed before it left: the loops change the text of
\* range closers and of negation tokens only, and remove other tokens.
CallerAfter(typed) ==
  LET final == StdRun(StdStart(Tagged(typed))).typed
      at(k) == { p \in 1..Len(final) : Len(final[p]) = 3 /\ final[p][3] = k - 1 }
  IN  IF OwnList(typed) THEN Untagged(final)
      ELSE [ k \in 1..Len(typed) |->
               IF at(k) = {} THEN typed[k]
               ELSE LET p == CHOOSE p \in at(k) : TRUE
                    IN  Tok(TText(final[p]), TKind(final[p])) ]

\* C24: after the call the caller's sequence and each of its tokens hold
\* the same text and kind as before, and the result is a separate sequence,
\* also when no pattern matched.
C24_InputUnchanged ==
  std.phase = "done" => (CallerAfter(stdIn) = stdIn /\ ~ OwnList(stdIn))

\* The run on marked tokens is the run on the tokens.
TaggedRunIsRun ==
  std.phase = "done" => Untagged(StdRun(StdStart(Tagged(stdIn))).typed) = std.typed

\* ------------------------------------------------------------------------
\* Type I Builder: merged tokens and their places in the typed query
\* ------------------------------------------------------------------------

\* The indices in typed, from k on, of the tokens that reach the reducer:
\* __extractOfType keeps the tokens of kind toExtract and __matchColumns
\* those of them found in a column; entry n of the match list is the token
\* at index KeptAt(...)[n + 1] of typed.
RECURSIVE KeptAt(_, _, _, _)
KeptAt(tbl, typed, toExtract, k) ==
  IF k >= Len(typed) THEN << >>
  ELSE (IF /\ TKind(typed[k + 1]) = toExtract
           /\ Len(MatchedCols(tbl, TText(typed[k + 1]), IdxCol, 1)) > 0
        THEN << k >> ELSE << >>)
       \o KeptAt(tbl, typed, toExtract, k + 1)

\* The rows of every group of the reduced list.
ReducedRows ==
  UNION { { red.reduced[g][r] : r \in 1..Len(red.reduced[g]) } :
          g \in 1..Len(red.reduced) }

\* KeptAt names the tokens of the match list.
KeptAtIsMatchList ==
  red.phase # "match" =>
    LET at == KeptAt(db, redIn, 1, 0) IN
    /\ Len(at) = Len(red.matchList)
    /\ \A n \in 1..Len(at) : TText(redIn[at[n] + 1]) = red.matchList[n][1]

\* C25: two literal tokens are merged only if they are directly adjacent in
\* the typed query: in every row of the result, each source position and the
\* next are the places of two neighbouring tokens of the typed query, with no
\* token of another kind and no unmatched token between them.
C25_MergedOnlyAdjacent ==
  red.phase = "done" =>
    LET at == KeptAt(db, redIn, 1, 0) IN
    \A row \in ReducedRows :
      \A k \in 1..(Len(RPos(row)) - 1) :
        at[RPos(row)[k + 1] + 1] = at[RPos(row)[k] + 1] + 1

\* The words of the text of a row, and the tokens at its source positions.
RowWords(row) == Split(RText(row), Space)
RowTokens(row) == [ k \in 1..Len(RPos(row)) |-> red.matchList[RPos(row)[k] + 1][1] ]

\* How often w stands in the sequence xs.
CountOf(xs, w) == Cardinality({ k \in 1..Len(xs) : xs[k] = w })

\* C26: the text of every row of the result is made of exactly the tokens at
\* its source positions, each once, joined by single spaces; a row with three
\* or more source positions holds the text of all of them.
C26_RowTextIsItsTokens ==
  red.phase = "done" =>
    \A row \in ReducedRows :
      /\ Len(RowWords(row)) = Len(RPos(row))
      /\ \A k \in 1..Len(RPos(row)) :
           CountOf(RowWords(row), RowTokens(row)[k]) = CountOf(RowTokens(row), RowTokens(row)[k])

\* ------------------------------------------------------------------------
\* Standardizer: what a finished loop of a boundary option leaves behind
\* ------------------------------------------------------------------------

\* The components of the boundary option whose loop the run is in.
BoundComps(s) == Split(Options(Bounders, s.r)[s.o + 1], Space)

\* An option made of literal words only: no wildcard, no application.
LiteralOnly(comps) ==
  \A k \in 1..Len(comps) : comps[k] # Star /\ ~ IsAppComp(comps[k])

\* Operator tokens spell comps from index p of typed on.
SpelledAt(typed, comps, p) ==
  /\ p + Len(comps) <= Len(typed)
  /\ \A k \in 1..Len(comps) :
       TKind(typed[p + k]) = 4 /\ Lower(TText(typed[p + k])) = comps[k]

HasRun(typed, comps) == \E p \in 0..Len(typed) : SpelledAt(typed, comps, p)

\* The loop of the current boundary option ends with this step.
BoundLoopEnds ==
  /\ std.phase = "bound"
  /\ << std'.phase, std'.r, std'.o >> # << std.phase, std.r, std.o >>
  /\ std'.phase # "raised"

\* C27: when the fixed-point loop of a boundary option of literal words ends,
\* no contiguous run of operator tokens spelling the option is left in the
\* sequence, wherever the run starts and whatever precedes it.
C27_LiteralRunsCollapsed ==
  [][ (BoundLoopEnds /\ LiteralOnly(BoundComps(std)))
        => ~ HasRun(std'.typed, BoundComps(std)) ]_vars

\* ------------------------------------------------------------------------
\* Standardizer: the payload of a boundary token and the span it replaces
\* ------------------------------------------------------------------------

\* The scan of the current boundary option over the sequence of s.
BoundScan(s) == BoundScanFrom(s.typed, BoundComps(s), ScanStart, 0)

\* The same scan over the matched span alone, from an empty unit.
SpanScan(s) ==
  BoundScanFrom(Slice(s.typed, BoundScan(s).start, BoundScan(s).end + 1),
                BoundComps(s), ScanStart, 0)

\* This step replaces a span by a synthetic boundary token.
BoundReplaces ==
  /\ std.phase = "bound"
  /\ BoundScan(std).err = "" /\ BoundScan(std).end # -1
  /\ std' = StdRuleStep(std)

\* C28: the payload of a synthetic boundary token is built from the tokens
\* of the span the token replaces and the text of a referenced application
\* only: it is the unit that the scan of the span alone collects, and holds
\* no unit text of a partial match abandoned before the span starts.
C28_PayloadFromSpan ==
  [][ BoundReplaces => SpanScan(std).text = BoundScan(std).text ]_vars

\* ------------------------------------------------------------------------
\* Standardizer: the fixed-point loop of one option, for any rule
\*
\* The loop of lines 256-315 (boundary) and of lines 324-389 (superlative)
\* reads the rule store through sym and option only; here the two are part
\* of the position of the run, so that the loop is followed for rules other
\* than those of Bounders and Superlatives.
\* ------------------------------------------------------------------------

\* The longest query of the loop of one option.
MaxOption == 3

\* An application code that no application line defines.
App2 == << "(", "2", ")" >>

\* Rules of one option each, none with an option equal to its symbol: words
\* only, a wildcard before one word, a wildcard before two words, a word and
\* an application; a superlative word and one with an application.
OptionRules ==
  { [ kind |-> "bound", sym |-> SymLt, option |-> WLess \o Space \o WThan ],
    [ kind |-> "bound", sym |-> WOr, option |-> Star \o Space \o WOr ],
    [ kind |-> "bound", sym |-> SymLe, option |-> Star \o Space \o WOr \o Space \o WLess ],
    [ kind |-> "bound", sym |-> WLess, option |-> WLess \o Space \o App2 ],
    [ kind |-> "super", sym |-> SymAsc, option |-> WLeast ],
    [ kind |-> "super", sym |-> WLeast, option |-> WLeast \o Space \o App1 ] }

OptionTokens ==
  { Tok(WLess, 4), Tok(WThan, 4), Tok(WOr, 4), Tok(WLeast, 4), Tok(UMiles, 3),
    Tok(NPrice, 2) }

\* The position at `changes = True` before the loop of the option of rule.
OptionStart(typed, rule) ==
  [ typed |-> typed, phase |-> rule.kind, sym |-> rule.sym, option |-> rule.option,
    err |-> "" ]

\* One iteration of `while changes`: a replacement, the end of the loop, or
\* an exception.
OptionStep(s) ==
  LET res == IF s.phase = "bound" THEN BoundPass(s.typed, s.sym, s.option)
             ELSE SuperPass(s.typed, s.sym, s.option)
  IN  IF res.err # "" THEN [ s EXCEPT !.phase = "raised", !.err = res.err ]
      ELSE IF res.changes THEN [ s EXCEPT !.typed = res.typed ]
      ELSE [ s EXCEPT !.phase = "done" ]

InitOption ==
  /\ stdIn \in SeqsUpTo(OptionTokens, MaxOption)
  /\ \E rule \in OptionRules : std = OptionStart(stdIn, rule)
  /\ SimpIdle /\ RedIdle /\ QIdle /\ LoadIdle

BoundOptionLoop ==
  /\ std.phase = "bound"
  /\ std' = OptionStep(std)
  /\ UNCHANGED << stdIn, simpVars, redVars, qVars, loadVars >>

SuperOptionLoop ==
  /\ std.phase = "super"
  /\ std' = OptionStep(std)
  /\ UNCHANGED << stdIn, simpVars, redVars, qVars, loadVars >>

NextOption == BoundOptionLoop \/ SuperOptionLoop

\* The interpreter runs the next iteration whenever there is one.  An
\* iteration that puts back the sequence it found leaves the position as it
\* was: the run then repeats that iteration for ever, and no step of it
\* changes the state.
SpecOption == InitOption /\ [][NextOption]_vars /\ WF_vars(NextOption)

OptionDone == std.phase \in { "done", "raised" }

\* C29: the loop of an option that is not equal to its symbol stops after
\* finitely many replacements, on every sequence, and no replacement makes
\* the sequence longer.
C29_LoopTerminates ==
  /\ <> OptionDone
  /\ [][ Len(std'.typed) <= Len(std.typed) ]_vars

====
